---- MODULE Spec2Model ----
(***************************************************************************)
(* Release orchestration of mcp-manager: the publish pipeline of           *)
(* McpOperationDO, RollbackService, the version routes that start them,    *)
(* the D1 registry rows they write and the DeploymentStateDO broadcaster.  *)
(* One service (mcpId) is modelled; its versions are 1..NumVersions.       *)
(***************************************************************************)
EXTENDS Integers, Sequences, FiniteSets, TLC

\* ---- bounds of the model ----
NumVersions == 2
NumReqs == 2
NumSubs == 2
MaxLogs == 2
MaxReceived == 2
MaxItems == 1
MaxLen == 5
MaxDepth == 2
MaxSessions == 2
\* for (let attempt = 0; attempt < 3; attempt += 1)
MaxAttempts == 3

\* current_version / deploymentId absent (NULL column, undefined field)
NoVersion == 0

Versions == 1..NumVersions
\* a version string that names no mcp_versions row of the service
UnknownVersion == NumVersions + 1
Reqs == 1..NumReqs
Actors == 1..NumReqs
Subs == 1..NumSubs

VARIABLES
  isActive,     \* mcp_versions.is_active per version row of the service
  service,      \* mcp_servers row: currentVersion, workerName, endpointUrl
  deployments,  \* deployments rows, keyed by the request that inserted them
  deployCalls,  \* number of Deploy API uploads each request has made
  operation,    \* McpOperationDO.operation of each actor instance
  kind,         \* what each request is: publish, rollback by route, rollback by actor
  target,       \* version each request targets
  actor,        \* McpOperationDO instance a request is routed to
  pc,           \* the await each request is suspended at
  err,          \* error message captured by the request's catch block
  outcome,      \* how the request ended
  bstate,       \* DeploymentStateDO.state per deploymentId
  conns,        \* DeploymentStateDO.connections per deploymentId (insertion order)
  received,     \* messages enqueued on each subscriber's stream
  sub,          \* each subscriber: deployment it streams and stream status
  sessions,     \* history: number of streams each subscriber has opened
  inflight,     \* /log posts started with waitUntil and not yet arrived
  arrived,      \* history: events that reached each broadcaster's fetch
  before,       \* history: registry as it was when a request started
  order,        \* history: requests in the order they started
  authConfig,   \* mcp_servers.auth_type and the mcp_auth_configs row of the service
  call,         \* the last call of generateWorkerScript or deployWorker and its result
  bucket,       \* BUNDLES bucket: the object stored under each key
  versionRows,  \* mcp_versions rows inserted by create-version requests
  creates,      \* create-version requests: input, the await each is at, its answer
  bundleCalls,  \* history: createBundle calls made so far and what each returned
  updates       \* tools-update requests: input, attempt, the await each is at, answer

regVars == <<isActive, service, deployments, deployCalls>>
reqVars == <<kind, target, actor, pc, err, outcome>>
doVars == <<bstate, conns, received, sub, sessions>>
evVars == <<inflight, arrived>>
histVars == <<before, order>>
callVars == <<authConfig, call>>
bundleVars == <<bucket, versionRows, creates, bundleCalls, updates>>
vars == <<isActive, service, deployments, deployCalls, operation, kind, target, actor,
          pc, err, outcome, bstate, conns, received, sub, sessions, inflight, arrived,
          before, order, authConfig, call, bucket, versionRows, creates, bundleCalls,
          updates>>

\* ---- values ----
NoWorker == <<>>
NoUrl == <<>>
WorkerName(v) == <<"mcp-svc-v", v>>
GetWorkerEndpointUrl(w) == <<"https://">> \o w \o <<".workers.dev">>

NoRecord == [status |-> "none", error |-> "", type |-> "none", workerName |-> NoWorker]
NoOperation == [id |-> NoVersion, type |-> "none", status |-> "none", version |-> NoVersion,
                deploymentId |-> NoVersion, error |-> ""]
NoState == [status |-> "none", logs |-> <<>>, error |-> "", completed |-> FALSE]
NoSub == [dep |-> NoVersion, status |-> "idle"]
NoArrivals == [events |-> <<>>, logs |-> 0]

Terminal == {"completed", "failed"}

\* the five OAuth columns of mcp_auth_configs; "" is NULL
NoOAuth == [provider |-> "", clientId |-> "", clientSecret |-> "",
            introspectionUrl |-> "", scopes |-> ""]
\* a service with auth_type public and no mcp_auth_configs row (the left join
\* yields NULL columns)
PublicAuth == [authType |-> "public", apiKeyHash |-> "", oauth |-> NoOAuth]
AuthTypes == {"public", "api_key", "oauth"}
NoCall == [fn |-> "none", by |-> "none", secrets |-> {}, vars |-> {}, carried |-> {},
           scriptOk |-> TRUE, secretsOk |-> TRUE, thrown |-> FALSE]

ServiceOf(v) ==
  IF v = NoVersion
  THEN [currentVersion |-> NoVersion, workerName |-> NoWorker, endpointUrl |-> NoUrl]
  ELSE [currentVersion |-> v, workerName |-> WorkerName(v),
        endpointUrl |-> GetWorkerEndpointUrl(WorkerName(v))]

Registry == [isActive |-> isActive, service |-> service]
ActiveSet == {v \in Versions : isActive[v]}

\* A registry as a sequence of completed publishes leaves it: no version published
\* yet, or one version active and the service row pointing at it.
\* a version string major.minor.patch as its parts; the versions of the model are
\* 1.0.0, 1.0.1, ...
VersionStrings == {<<1, 0, patch>> : patch \in 0..NumReqs}
\* body.version of a create-version request, and the tools of a tools update
CreateVersions == {<<1, 0, 0>>, <<1, 0, 1>>}
ToolBodies == {"t1", "t2"}
\* source texts: body.sourceCode of a create-version request, and the JSON of tools
\* and version that a tools update bundles
SourceCodes == {<<"a">>, <<"b">>, <<"c">>}
UpdateSourceCode(tools, version) == <<tools, version>>
AllSourceCodes ==
  SourceCodes \cup {UpdateSourceCode(tools, version) :
                      tools \in ToolBodies, version \in VersionStrings}
\* generateHash: the first 8 bytes of the SHA-256 digest, in hex; a hash is written as
\* a content that has it. The digest is cut short, so distinct contents can share a
\* hash: "a" and "c" stand for such a pair
GenerateHash(content) == IF content = <<"c">> THEN <<"a">> ELSE content
\* `${mcpId}/${version}/${hash}.js`, for the one service of the model
BundleKey(version, hash) == <<version, hash>>
BundleKeys == {BundleKey(version, GenerateHash(content)) :
                 version \in VersionStrings, content \in AllSourceCodes}
\* r2.get of a key without an object
NoObject == <<>>
NoKey == <<>>
\* a create-version request that has not been made
NoCreate == [pc |-> "idle", version |-> <<>>, sourceCode |-> <<>>, status |-> "",
             bundleKey |-> NoKey]

\* a tools-update request that has not been made
NoUpdate == [pc |-> "idle", tools |-> "", baseVersion |-> <<>>, attempt |-> 0,
             version |-> <<>>, bundleKey |-> NoKey, unique |-> FALSE, status |-> ""]

Init ==
  /\ \E v0 \in Versions \cup {NoVersion} :
       /\ isActive = [v \in Versions |-> v = v0]
       /\ service = ServiceOf(v0)
  /\ deployments = [r \in Reqs |-> NoRecord]
  /\ deployCalls = [r \in Reqs |-> 0]
  /\ operation = [a \in Actors |-> NoOperation]
  /\ kind = [r \in Reqs |-> "none"]
  /\ target = [r \in Reqs |-> NoVersion]
  /\ actor = [r \in Reqs |-> NoVersion]
  /\ pc = [r \in Reqs |-> "idle"]
  /\ err = [r \in Reqs |-> ""]
  /\ outcome = [r \in Reqs |-> "none"]
  /\ bstate = [d \in Reqs |-> NoState]
  /\ conns = [d \in Reqs |-> <<>>]
  /\ received = [s \in Subs |-> <<>>]
  /\ sub = [s \in Subs |-> NoSub]
  /\ sessions = [s \in Subs |-> 0]
  /\ inflight = [d \in Reqs |-> 0]
  /\ arrived = [d \in Reqs |-> NoArrivals]
  /\ before = [r \in Reqs |-> Registry]
  /\ order = <<>>
  /\ authConfig = PublicAuth
  /\ call = NoCall
  /\ bucket = [key \in BundleKeys |-> NoObject]
  /\ versionRows = {}
  /\ creates = [r \in Reqs |-> NoCreate]
  /\ bundleCalls = {}
  /\ updates = [r \in Reqs |-> NoUpdate]

\* ---- DeploymentStateDO: the broadcaster of one deploymentId ----

\* A request to the broadcaster: the pathname as its segments, method, accept header.
PostRequest(segment) == [path |-> <<segment>>, method |-> "POST", accept |-> ""]
StreamRequest == [path |-> <<"stream">>, method |-> "GET", accept |-> "text/event-stream"]

EndsWith(path, segment) == Len(path) > 0 /\ path[Len(path)] = segment

\* fetch: the handler a request is dispatched to
HandlerFor(req) ==
  IF EndsWith(req.path, "stream") /\ req.accept = "text/event-stream" THEN "handleSSE"
  ELSE IF EndsWith(req.path, "initialize") /\ req.method = "POST" THEN "handleInitialize"
  ELSE IF EndsWith(req.path, "status") /\ req.method = "GET" THEN "handleStatus"
  ELSE IF req.method = "GET" THEN "handleStatus"
  ELSE "notFound"

\* initialize: creates the state once, status pending, no logs
Initialize(st) ==
  IF st = NoState
  THEN [status |-> "pending", logs |-> <<>>, error |-> "", completed |-> FALSE]
  ELSE st

\* the state of the broadcaster after fetch has handled a POST
FetchState(st, req) ==
  IF HandlerFor(req) = "handleInitialize" THEN Initialize(st) ELSE st

\* history kept for the claims: what reached the control channel
Arrive(h, ev) ==
  IF ev.type = "log" THEN [h EXCEPT !.logs = @ + 1]
  ELSE [h EXCEPT !.events = Append(@, ev)]

\* postDeploymentEvent: one POST reaches the broadcaster of deployment d
Post(d, segment, ev) ==
  /\ bstate' = [bstate EXCEPT ![d] = FetchState(@, PostRequest(segment))]
  /\ arrived' = [arrived EXCEPT ![d] = Arrive(@, ev)]
NoPost == UNCHANGED <<bstate, arrived>>

StatusEvent(status, error) == [type |-> "status", status |-> status, error |-> error]
ProgressEvent(step, progress) == [type |-> "progress", step |-> step, progress |-> progress]
LogEvent == [type |-> "log"]

\* ---- McpOperationDO helpers ----

\* updateStatus: sets the status of whatever operation the actor now holds
UpdateStatus(ops, a, status, error) ==
  IF ops[a].id = NoVersion THEN ops
  ELSE [ops EXCEPT ![a].status = status,
                   ![a].error = IF error # "" THEN error ELSE @]

\* addLog: the /log post goes, un-awaited, to the deployment of the operation the
\* actor now holds
AddLog(ops, a) ==
  inflight' = IF ops[a].id # NoVersion /\ ops[a].deploymentId # NoVersion
              THEN [inflight EXCEPT ![ops[a].deploymentId] = @ + 1]
              ELSE inflight
NoLog == UNCHANGED inflight

\* the request resumes after an await and suspends at the next one
Goto(r, p) ==
  /\ pc' = [pc EXCEPT ![r] = p]
  /\ UNCHANGED <<err, outcome>>
\* a throw inside executePublish's try block: the catch block starts
Catch(r, message) ==
  /\ pc' = [pc EXCEPT ![r] = "f_db"]
  /\ err' = [err EXCEPT ![r] = message]
  /\ UNCHANGED outcome
End(r, how) ==
  /\ pc' = [pc EXCEPT ![r] = "done"]
  /\ outcome' = [outcome EXCEPT ![r] = how]
  /\ UNCHANGED err
EndWith(r, how, message) ==
  /\ pc' = [pc EXCEPT ![r] = "done"]
  /\ outcome' = [outcome EXCEPT ![r] = how]
  /\ err' = [err EXCEPT ![r] = message]

\* UPDATE deployments ... WHERE id = deploymentId changes a row only when there is one
RowExists(d) == deployments[d].status # "none"

\* generateWorkerScript rejects a config without name, version or auth type
GenerateFails(config) == config.name = "" \/ config.version = NoVersion \/ config.authType = ""
\* the config executePublish passes: the auth type is the NOT NULL column of the service
PublishConfig(v) == [name |-> "mcp-svc", version |-> v, authType |-> "public"]


\* ---- publish: POST /:mcpId/:version/publish, then McpOperationDO.executePublish ----

\* The route reads the version and the service, names the actor
\* `${mcpId}-${version}-${Date.now()}` (two requests for one version in the same
\* millisecond name the same actor) and inserts the deployment row.
StartPublish(r) ==
  /\ pc[r] = "idle"
  /\ \E v \in Versions, a \in Actors :
       /\ \/ a = r
          \/ \E q \in Reqs : /\ q # r
                             /\ kind[q] = "publish" /\ target[q] = v /\ actor[q] = a
                             /\ pc[q] \in {"p_init", "p_send"}
       /\ kind' = [kind EXCEPT ![r] = "publish"]
       /\ target' = [target EXCEPT ![r] = v]
       /\ actor' = [actor EXCEPT ![r] = a]
  /\ deployments' = [deployments EXCEPT ![r] =
       [status |-> "in_progress", error |-> "", type |-> "publish", workerName |-> NoWorker]]
  /\ Goto(r, "p_init")
  /\ UNCHANGED <<isActive, service, deployCalls, operation, doVars, evVars>>

\* POST /initialize to the deployment's broadcaster
RouteInitialize(r) ==
  /\ pc[r] = "p_init"
  /\ bstate' = [bstate EXCEPT ![r] = FetchState(@, PostRequest("initialize"))]
  /\ Goto(r, "p_send")
  /\ UNCHANGED <<regVars, operation, kind, target, actor, conns, received, sub, sessions, evVars>>

\* POST /publish reaches the actor: it replaces this.operation and starts
\* executePublish, which runs up to its first await
RouteSendPublish(r) ==
  /\ pc[r] = "p_send"
  /\ operation' = [operation EXCEPT ![actor[r]] =
       [id |-> r, type |-> "publish", status |-> "in_progress", version |-> target[r],
        deploymentId |-> r, error |-> ""]]
  /\ Goto(r, "e_status")
  /\ UNCHANGED <<regVars, kind, target, actor, doVars, evVars>>

\* POST /publish sent to the actor with a body the handler does not validate: the
\* version may be absent, and the deploymentId names no deployments row. It
\* replaces this.operation and starts executePublish.
StartPublishActor(r) ==
  /\ pc[r] = "idle"
  /\ \E v \in Versions \cup {NoVersion}, a \in Actors :
       /\ kind' = [kind EXCEPT ![r] = "publish"]
       /\ target' = [target EXCEPT ![r] = v]
       /\ actor' = [actor EXCEPT ![r] = a]
       /\ operation' = [operation EXCEPT ![a] =
            [id |-> r, type |-> "publish", status |-> "in_progress", version |-> v,
             deploymentId |-> r, error |-> ""]]
  /\ Goto(r, "e_status")
  /\ UNCHANGED <<regVars, doVars, evVars>>

\* the actor call throws or answers not ok: the actor never ran the request
RouteSendFails(r) ==
  /\ pc[r] = "p_send"
  /\ pc' = [pc EXCEPT ![r] = "rf_db"]
  /\ err' = [err EXCEPT ![r] = "Publish failed"]
  /\ UNCHANGED <<regVars, operation, kind, target, actor, outcome, doVars, evVars>>

\* the route's failure handler marks the deployment row failed
RouteFailRecord(r) ==
  /\ pc[r] = "rf_db"
  /\ \E ok \in BOOLEAN :
       IF ok
       THEN /\ deployments' = [deployments EXCEPT ![r].status = "failed", ![r].error = err[r]]
            /\ Goto(r, "rf_post")
       ELSE /\ UNCHANGED deployments
            /\ End(r, "aborted")
  /\ UNCHANGED <<isActive, service, deployCalls, operation, kind, target, actor, doVars, evVars>>

\* ... and posts the failed status to the broadcaster
RouteFailPost(r) ==
  /\ pc[r] = "rf_post"
  /\ Post(r, "update-status", StatusEvent("failed", err[r]))
  /\ End(r, "failed")
  /\ UNCHANGED <<regVars, operation, kind, target, actor, conns, received, sub, sessions, inflight>>

\* await updateDeploymentStatus(deploymentId, 'in_progress')
EmitInProgress(r) ==
  /\ pc[r] = "e_status"
  /\ Post(r, "update-status", StatusEvent("in_progress", ""))
  /\ Goto(r, "e_p5")
  /\ UNCHANGED <<regVars, operation, kind, target, actor, conns, received, sub, sessions, inflight>>

\* await emitProgress('initializing', 5); addLog('Fetching bundle from R2...')
EmitInitializing(r) ==
  /\ pc[r] = "e_p5"
  /\ Post(r, "progress", ProgressEvent("initializing", 5))
  /\ AddLog(operation, actor[r])
  /\ Goto(r, "e_p20")
  /\ UNCHANGED <<regVars, operation, kind, target, actor, conns, received, sub, sessions>>

\* await emitProgress('fetching_bundle', 20)
EmitFetchingBundle(r) ==
  /\ pc[r] = "e_p20"
  /\ Post(r, "progress", ProgressEvent("fetching_bundle", 20))
  /\ Goto(r, "e_bundle")
  /\ UNCHANGED <<regVars, operation, kind, target, actor, conns, received, sub, sessions, inflight>>

\* await bundleService.getBundle(bundleKey); null throws 'Bundle not found';
\* addLog('Preparing Worker script...')
GetBundle(r) ==
  /\ pc[r] = "e_bundle"
  /\ \E found \in BOOLEAN :
       IF found
       THEN AddLog(operation, actor[r]) /\ Goto(r, "e_p40")
       ELSE NoLog /\ Catch(r, "Bundle not found")
  /\ NoPost
  /\ UNCHANGED <<regVars, operation, kind, target, actor, conns, received, sub, sessions>>

\* await emitProgress('preparing_worker', 40); generateWorkerScript;
\* addLog('Deploying to Cloudflare...')
EmitPreparingWorker(r) ==
  /\ pc[r] = "e_p40"
  /\ Post(r, "progress", ProgressEvent("preparing_worker", 40))
  /\ IF GenerateFails(PublishConfig(target[r]))
     THEN NoLog /\ Catch(r, "Invalid MCP configuration provided to WorkerGenerator")
     ELSE AddLog(operation, actor[r]) /\ Goto(r, "e_p70")
  /\ UNCHANGED <<regVars, operation, kind, target, actor, conns, received, sub, sessions>>

\* EmitDeploying with the progress event left out
EmitDeployingSilent(r) ==
  /\ pc[r] = "e_p70"
  /\ NoPost
  /\ Goto(r, "e_deploy")
  /\ UNCHANGED <<regVars, operation, kind, target, actor, conns, received, sub, sessions, inflight>>

\* await emitProgress('deploying', 70)
EmitDeploying(r) ==
  /\ pc[r] = "e_p70"
  /\ Post(r, "progress", ProgressEvent("deploying", 70))
  /\ Goto(r, "e_deploy")
  /\ UNCHANGED <<regVars, operation, kind, target, actor, conns, received, sub, sessions, inflight>>

\* DeployWorker with a rejected upload only logged, as setWorkerVars does with a
\* rejected secret: the pipeline goes on
DeployWorkerWarnsOnly(r) ==
  /\ pc[r] = "e_deploy"
  /\ deployCalls' = [deployCalls EXCEPT ![r] = @ + 1]
  /\ \E ok \in BOOLEAN :
       /\ pc' = [pc EXCEPT ![r] = "e_p85"]
       /\ err' = [err EXCEPT ![r] = IF ok THEN @ ELSE "Failed to deploy worker"]
       /\ UNCHANGED outcome
  /\ AddLog(operation, actor[r])
  /\ NoPost
  /\ UNCHANGED <<isActive, service, deployments, operation, kind, target, actor,
                 conns, received, sub, sessions>>

\* await cloudflareApi.deployWorker(...): a response that is not ok throws;
\* addLog('Updating routing...')
DeployWorker(r) ==
  /\ pc[r] = "e_deploy"
  /\ deployCalls' = [deployCalls EXCEPT ![r] = @ + 1]
  /\ \E ok \in BOOLEAN :
       IF ok
       THEN AddLog(operation, actor[r]) /\ Goto(r, "e_p85")
       ELSE NoLog /\ Catch(r, "Failed to deploy worker")
  /\ NoPost
  /\ UNCHANGED <<isActive, service, deployments, operation, kind, target, actor,
                 conns, received, sub, sessions>>

\* await emitProgress('updating_routing', 85); getWorkerEndpointUrl;
\* addLog('Updating MCP server status in D1...')
EmitUpdatingRouting(r) ==
  /\ pc[r] = "e_p85"
  /\ Post(r, "progress", ProgressEvent("updating_routing", 85))
  /\ AddLog(operation, actor[r])
  /\ Goto(r, "e_svc")
  /\ UNCHANGED <<regVars, operation, kind, target, actor, conns, received, sub, sessions>>

\* await db.update(mcpServers).set({currentVersion, workerName, endpointUrl})
UpdateServer(r) ==
  /\ pc[r] = "e_svc"
  /\ \E ok \in BOOLEAN :
       IF ok
       THEN /\ service' = [currentVersion |-> target[r],
                           workerName |-> WorkerName(target[r]),
                           endpointUrl |-> GetWorkerEndpointUrl(WorkerName(target[r]))]
            /\ Goto(r, "e_deact")
       ELSE /\ UNCHANGED service
            /\ Catch(r, "D1_ERROR: update mcp_servers")
  /\ NoPost /\ NoLog
  /\ UNCHANGED <<isActive, deployments, deployCalls, operation, kind, target, actor,
                 conns, received, sub, sessions>>

\* await db.update(mcpVersions).set({isActive: 0}).where(mcpId and isActive = 1)
DeactivateActive(r) ==
  /\ pc[r] = "e_deact"
  /\ \E ok \in BOOLEAN :
       IF ok
       THEN /\ isActive' = [v \in Versions |-> FALSE]
            /\ Goto(r, "e_act")
       ELSE /\ UNCHANGED isActive
            /\ Catch(r, "D1_ERROR: deactivate mcp_versions")
  /\ NoPost /\ NoLog
  /\ UNCHANGED <<service, deployments, deployCalls, operation, kind, target, actor,
                 conns, received, sub, sessions>>

\* ActivateVersion without the update: the publish goes on to completeDeployment
ActivateVersionSkipped(r) ==
  /\ pc[r] = "e_act"
  /\ Goto(r, "e_complete_db")
  /\ NoPost /\ NoLog
  /\ UNCHANGED <<isActive, service, deployments, deployCalls, operation, kind, target, actor,
                 conns, received, sub, sessions>>

\* await db.update(mcpVersions).set({deployedAt, isActive: 1}).where(mcpId and version)
ActivateVersion(r) ==
  /\ pc[r] = "e_act"
  /\ \E ok \in BOOLEAN :
       IF ok
       THEN /\ isActive' = [isActive EXCEPT ![target[r]] = TRUE]
            /\ Goto(r, "e_complete_db")
       ELSE /\ UNCHANGED isActive
            /\ Catch(r, "D1_ERROR: activate mcp_versions")
  /\ NoPost /\ NoLog
  /\ UNCHANGED <<service, deployments, deployCalls, operation, kind, target, actor,
                 conns, received, sub, sessions>>

\* completeDeployment('completed', workerName): the deployments row
CompleteRecord(r) ==
  /\ pc[r] = "e_complete_db"
  /\ \E ok \in BOOLEAN :
       IF ok
       THEN /\ deployments' = IF RowExists(r)
                               THEN [deployments EXCEPT ![r].status = "completed",
                                                        ![r].error = "",
                                                        ![r].workerName = WorkerName(target[r])]
                               ELSE deployments
            /\ Goto(r, "e_complete_post")
       ELSE /\ UNCHANGED deployments
            /\ Catch(r, "D1_ERROR: update deployments")
  /\ NoPost /\ NoLog
  /\ UNCHANGED <<isActive, service, deployCalls, operation, kind, target, actor,
                 conns, received, sub, sessions>>

\* completeDeployment('completed'): await emitStatus('completed')
EmitCompletedStatus(r) ==
  /\ pc[r] = "e_complete_post"
  /\ Post(r, "update-status", StatusEvent("completed", ""))
  /\ Goto(r, "e_p100")
  /\ UNCHANGED <<regVars, operation, kind, target, actor, conns, received, sub, sessions, inflight>>

\* await emitProgress('completed', 100); updateStatus('completed'); addLog(...)
EmitCompleted(r) ==
  /\ pc[r] = "e_p100"
  /\ Post(r, "progress", ProgressEvent("completed", 100))
  /\ operation' = UpdateStatus(operation, actor[r], "completed", "")
  /\ AddLog(operation', actor[r])
  /\ End(r, "completed")
  /\ UNCHANGED <<regVars, kind, target, actor, conns, received, sub, sessions>>

\* catch: completeDeployment('failed', undefined, message): the deployments row.
\* A throw here leaves executePublish with an unhandled rejection.
FailRecord(r) ==
  /\ pc[r] = "f_db"
  /\ \E ok \in BOOLEAN :
       IF ok
       THEN /\ deployments' = IF RowExists(r)
                               THEN [deployments EXCEPT ![r].status = "failed",
                                                        ![r].error = err[r]]
                               ELSE deployments
            /\ Goto(r, "f_post")
       ELSE /\ UNCHANGED deployments
            /\ End(r, "aborted")
  /\ NoPost /\ NoLog
  /\ UNCHANGED <<isActive, service, deployCalls, operation, kind, target, actor,
                 conns, received, sub, sessions>>

\* catch: completeDeployment('failed'): await emitStatus('failed', message)
EmitFailedStatus(r) ==
  /\ pc[r] = "f_post"
  /\ Post(r, "update-status", StatusEvent("failed", err[r]))
  /\ Goto(r, "f_p100")
  /\ UNCHANGED <<regVars, operation, kind, target, actor, conns, received, sub, sessions, inflight>>

\* EmitFailed with an automatic retry: after the failure is reported the pipeline
\* is started again from its first step
EmitFailedRetries(r) ==
  /\ pc[r] = "f_p100"
  /\ Post(r, "progress", ProgressEvent("failed", 100))
  /\ operation' = UpdateStatus(operation, actor[r], "failed", err[r])
  /\ AddLog(operation', actor[r])
  /\ Goto(r, "e_status")
  /\ UNCHANGED <<regVars, kind, target, actor, conns, received, sub, sessions>>

\* catch: await emitProgress('failed', 100); updateStatus('failed', message); addLog
EmitFailed(r) ==
  /\ pc[r] = "f_p100"
  /\ Post(r, "progress", ProgressEvent("failed", 100))
  /\ operation' = UpdateStatus(operation, actor[r], "failed", err[r])
  /\ AddLog(operation', actor[r])
  /\ End(r, "failed")
  /\ UNCHANGED <<regVars, kind, target, actor, conns, received, sub, sessions>>

\* a /log post started by addLog reaches the broadcaster
DeliverLog(d) ==
  /\ inflight[d] > 0
  /\ inflight' = [inflight EXCEPT ![d] = @ - 1]
  /\ Post(d, "log", LogEvent)
  /\ UNCHANGED <<regVars, operation, reqVars, conns, received, sub, sessions>>


\* ---- rollback: RollbackService.rollback and its two callers ----

IsRollback(k) == k \in {"rollback_route", "rollback_actor"}

\* the config rollback passes: authType is mcp.auth_type || 'public'
RollbackConfig(v) == [name |-> "mcp-svc", version |-> v, authType |-> "public"]

\* rollback returns: the route answers success; executeRollback sets the actor's
\* status and logs
RollbackReturns(r) ==
  /\ End(r, "completed")
  /\ IF kind[r] = "rollback_actor"
     THEN /\ operation' = UpdateStatus(operation, actor[r], "completed", "")
          /\ AddLog(operation', actor[r])
     ELSE UNCHANGED operation /\ NoLog

\* rollback throws: the route answers 500; executeRollback's catch sets the actor's
\* status and logs
RollbackThrows(r, message) ==
  /\ EndWith(r, "failed", message)
  /\ IF kind[r] = "rollback_actor"
     THEN /\ operation' = UpdateStatus(operation, actor[r], "failed", message)
          /\ AddLog(operation', actor[r])
     ELSE UNCHANGED operation /\ NoLog

\* POST /:mcpId/:version/rollback: 404 when no version row is read, 400 when the
\* row read is active, else RollbackService.rollback starts and reads the target row
StartRollbackRoute(r) ==
  /\ pc[r] = "idle"
  /\ \E v \in Versions \cup {UnknownVersion} :
       /\ kind' = [kind EXCEPT ![r] = "rollback_route"]
       /\ target' = [target EXCEPT ![r] = v]
       /\ IF v \notin Versions THEN End(r, "not_found")
          ELSE IF isActive[v] THEN End(r, "rejected") ELSE Goto(r, "r_deact")
  /\ UNCHANGED <<regVars, operation, actor, doVars, evVars>>

\* McpOperationDO POST /rollback: replaces this.operation and starts
\* executeRollback, whose rollback reads the target row
StartRollbackActor(r) ==
  /\ pc[r] = "idle"
  /\ \E v \in Versions \cup {UnknownVersion}, a \in Actors :
       /\ kind' = [kind EXCEPT ![r] = "rollback_actor"]
       /\ target' = [target EXCEPT ![r] = v]
       /\ actor' = [actor EXCEPT ![r] = a]
       /\ operation' = [operation EXCEPT ![a] =
            [id |-> r, type |-> "rollback", status |-> "in_progress", version |-> v,
             deploymentId |-> NoVersion, error |-> ""]]
       /\ AddLog(operation', a)
       /\ Goto(r, IF v \in Versions THEN "r_deact" ELSE "r_select")
  /\ NoPost
  /\ UNCHANGED <<regVars, conns, received, sub, sessions>>

\* RollbackNotFound going on to the registry writes instead of throwing
RollbackNotFoundProceeds(r) ==
  /\ pc[r] = "r_select"
  /\ Goto(r, "r_deact")
  /\ UNCHANGED operation /\ NoLog
  /\ NoPost
  /\ UNCHANGED <<regVars, kind, target, actor, conns, received, sub, sessions>>

\* 1. Get target version: no row, rollback throws before its first write
RollbackNotFound(r) ==
  /\ pc[r] = "r_select"
  /\ RollbackThrows(r, "Target version not found")
  /\ NoPost
  /\ UNCHANGED <<regVars, kind, target, actor, conns, received, sub, sessions>>

\* 2. Deactivate current version
RollbackDeactivate(r) ==
  /\ pc[r] = "r_deact"
  /\ \E ok \in BOOLEAN :
       IF ok
       THEN /\ isActive' = [v \in Versions |-> FALSE]
            /\ Goto(r, "r_act")
            /\ UNCHANGED operation /\ NoLog
       ELSE /\ UNCHANGED isActive
            /\ RollbackThrows(r, "D1_ERROR: deactivate mcp_versions")
  /\ NoPost
  /\ UNCHANGED <<service, deployments, deployCalls, kind, target, actor, conns, received, sub, sessions>>

\* 3. Activate target version
RollbackActivate(r) ==
  /\ pc[r] = "r_act"
  /\ \E ok \in BOOLEAN :
       IF ok
       THEN /\ isActive' = [isActive EXCEPT ![target[r]] = TRUE]
            /\ Goto(r, "r_bundle")
            /\ UNCHANGED operation /\ NoLog
       ELSE /\ UNCHANGED isActive
            /\ RollbackThrows(r, "D1_ERROR: activate mcp_versions")
  /\ NoPost
  /\ UNCHANGED <<service, deployments, deployCalls, kind, target, actor, conns, received, sub, sessions>>

\* 4. the service row is read; r2.get(bundleKey); generateWorkerScript
RollbackGetBundle(r) ==
  /\ pc[r] = "r_bundle"
  /\ \E found \in BOOLEAN :
       IF ~found
       THEN RollbackThrows(r, "Bundle not found in R2")
       ELSE IF GenerateFails(RollbackConfig(target[r]))
       THEN RollbackThrows(r, "Invalid MCP configuration provided to WorkerGenerator")
       ELSE Goto(r, "r_deploy") /\ UNCHANGED operation /\ NoLog
  /\ NoPost
  /\ UNCHANGED <<regVars, kind, target, actor, conns, received, sub, sessions>>

\* await cloudflareApi.deployWorker(...)
RollbackDeploy(r) ==
  /\ pc[r] = "r_deploy"
  /\ deployCalls' = [deployCalls EXCEPT ![r] = @ + 1]
  /\ \E ok \in BOOLEAN :
       IF ok
       THEN Goto(r, "r_svc") /\ UNCHANGED operation /\ NoLog
       ELSE RollbackThrows(r, "Failed to deploy worker")
  /\ NoPost
  /\ UNCHANGED <<isActive, service, deployments, kind, target, actor, conns, received, sub, sessions>>

\* RollbackUpdateServer with currentVersion left out of the update
RollbackUpdateServerWorkerOnly(r) ==
  /\ pc[r] = "r_svc"
  /\ \E ok \in BOOLEAN :
       IF ok
       THEN /\ service' = [service EXCEPT !.workerName = WorkerName(target[r])]
            /\ Goto(r, "r_record")
            /\ UNCHANGED operation /\ NoLog
       ELSE /\ UNCHANGED service
            /\ RollbackThrows(r, "D1_ERROR: update mcp_servers")
  /\ NoPost
  /\ UNCHANGED <<isActive, deployments, deployCalls, kind, target, actor, conns, received, sub, sessions>>

\* 5. Update MCP record: currentVersion and workerName (endpointUrl is not set)
RollbackUpdateServer(r) ==
  /\ pc[r] = "r_svc"
  /\ \E ok \in BOOLEAN :
       IF ok
       THEN /\ service' = [service EXCEPT !.currentVersion = target[r],
                                          !.workerName = WorkerName(target[r])]
            /\ Goto(r, "r_record")
            /\ UNCHANGED operation /\ NoLog
       ELSE /\ UNCHANGED service
            /\ RollbackThrows(r, "D1_ERROR: update mcp_servers")
  /\ NoPost
  /\ UNCHANGED <<isActive, deployments, deployCalls, kind, target, actor, conns, received, sub, sessions>>

\* Record deployment: a new row, operationType rollback, status completed
RollbackRecord(r) ==
  /\ pc[r] = "r_record"
  /\ \E ok \in BOOLEAN :
       IF ok
       THEN /\ deployments' = [deployments EXCEPT ![r] =
                 [status |-> "completed", error |-> "", type |-> "rollback",
                  workerName |-> WorkerName(target[r])]]
            /\ RollbackReturns(r)
       ELSE /\ UNCHANGED deployments
            /\ RollbackThrows(r, "D1_ERROR: insert deployments")
  /\ NoPost
  /\ UNCHANGED <<isActive, service, deployCalls, kind, target, actor, conns, received, sub, sessions>>

\* ---- the auth config of the service and the deploy call ----

\* hashApiKey: the stored value is derived from the key, it is not the key
HashApiKey(apiKey) == <<"sha256", apiKey>>

\* bodies of PATCH /api/mcp/:id: authType and authConfig, each optional ("" and
\* NoBodyAuth are the absent ones)
NoBodyAuth == [apiKey |-> "", oauth |-> NoOAuth]
BodyOAuths == [provider : {"", "github"}, clientId : {"", "id"}, clientSecret : {"", "secret"},
               introspectionUrl : {"", "url"}, scopes : {"", "read"}]
PatchBodies == [authType : AuthTypes \cup {""},
                authConfig : [apiKey : {"", "key"}, oauth : BodyOAuths]]

\* body.authConfig?.field ?? existingAuth?.field ?? null
Coalesce(given, existing) == IF given # "" THEN given ELSE existing

\* PATCH /api/mcp/:id: mcp_servers.auth_type is written first, then the
\* mcp_auth_configs row is deleted, kept (400) or rewritten for the new auth type
PatchAuth(cfg, body) ==
  LET newAuthType == Coalesce(body.authType, cfg.authType)
      given == body.authConfig
      hasConfig == given # NoBodyAuth
      written == [cfg EXCEPT !.authType = newAuthType]
  IN IF body.authType = "" /\ ~hasConfig THEN cfg
     ELSE IF newAuthType = "public" /\ ~hasConfig
     THEN [written EXCEPT !.apiKeyHash = "", !.oauth = NoOAuth]
     ELSE IF newAuthType = "api_key" /\ given.apiKey = "" /\ cfg.apiKeyHash = ""
     THEN written
     ELSE IF /\ newAuthType = "oauth"
             /\ \/ Coalesce(given.oauth.clientId, cfg.oauth.clientId) = ""
                \/ Coalesce(given.oauth.clientSecret, cfg.oauth.clientSecret) = ""
                \/ Coalesce(given.oauth.introspectionUrl, cfg.oauth.introspectionUrl) = ""
     THEN written
     ELSE [authType |-> newAuthType,
           apiKeyHash |-> IF newAuthType = "api_key"
                          THEN (IF given.apiKey # "" THEN HashApiKey(given.apiKey)
                                ELSE cfg.apiKeyHash)
                          ELSE "",
           oauth |-> IF newAuthType = "oauth"
                     THEN [f \in DOMAIN NoOAuth |-> Coalesce(given.oauth[f], cfg.oauth[f])]
                     ELSE NoOAuth]

UpdateAuth ==
  /\ \E body \in PatchBodies : authConfig' = PatchAuth(authConfig, body)
  /\ UNCHANGED <<regVars, operation, reqVars, doVars, evVars, histVars, call, bundleVars>>

\* buildAuthSecrets: the secrets of the auth type, as name and value
Secret(name, value) == [name |-> name, value |-> value]
BuildAuthSecrets(authType, apiKeyHash, oauth) ==
  (IF authType = "api_key" /\ apiKeyHash # ""
   THEN {Secret("MCP_API_KEY_HASH", apiKeyHash)} ELSE {})
  \cup
  (IF authType = "oauth"
   THEN (IF oauth.provider # "" THEN {Secret("OAUTH_PROVIDER", oauth.provider)} ELSE {})
        \cup (IF oauth.clientId # "" THEN {Secret("OAUTH_CLIENT_ID", oauth.clientId)} ELSE {})
        \cup (IF oauth.clientSecret # ""
              THEN {Secret("OAUTH_CLIENT_SECRET", oauth.clientSecret)} ELSE {})
        \cup (IF oauth.introspectionUrl # ""
              THEN {Secret("OAUTH_INTROSPECTION_URL", oauth.introspectionUrl)} ELSE {})
        \cup (IF oauth.scopes # "" THEN {Secret("OAUTH_SCOPES", oauth.scopes)} ELSE {})
   ELSE {})

\* deployWorker(name, script, bindings, vars): it has four parameters, a fifth
\* argument is not read. The script is uploaded; a response that is not ok throws.
\* Then each entry of vars is uploaded as a secret by setWorkerVars, which only
\* warns when the response is not ok.
DeployWorkerApi(by, envVars, fifth, scriptOk, secretsOk) ==
  [fn |-> "deployWorker", by |-> by, secrets |-> fifth, vars |-> envVars,
   carried |-> IF scriptOk THEN envVars ELSE {},
   scriptOk |-> scriptOk, secretsOk |-> secretsOk,
   thrown |-> ~scriptOk]

\* executePublish: the body the route sends holds the service's auth type and the
\* columns of its auth config; deployWorker(workerName, script, bindings, {}, secrets)
PublishDeployCall ==
  /\ \E scriptOk \in BOOLEAN :
       call' = DeployWorkerApi("publish", {},
                 BuildAuthSecrets(authConfig.authType, authConfig.apiKeyHash, authConfig.oauth),
                 scriptOk, TRUE)
  /\ UNCHANGED <<regVars, operation, reqVars, doVars, evVars, histVars, authConfig, bundleVars>>

\* RollbackService.rollback: authType is mcp.auth_type || 'public';
\* deployWorker(workerName, script, bindings, {}, secrets)
RollbackDeployCall ==
  /\ \E scriptOk \in BOOLEAN :
       call' = DeployWorkerApi("rollback", {},
                 BuildAuthSecrets(Coalesce(authConfig.authType, "public"),
                                  authConfig.apiKeyHash, authConfig.oauth),
                 scriptOk, TRUE)
  /\ UNCHANGED <<regVars, operation, reqVars, doVars, evVars, histVars, authConfig, bundleVars>>

\* deployWorker called with the secrets as its vars, the way
\* services/rollback-service.ts passes them: the one way a secret is uploaded
DeployWithVarsCall ==
  /\ \E scriptOk, secretsOk \in BOOLEAN :
       call' = DeployWorkerApi("direct",
                 BuildAuthSecrets(authConfig.authType, authConfig.apiKeyHash, authConfig.oauth),
                 {}, scriptOk, secretsOk)
  /\ BuildAuthSecrets(authConfig.authType, authConfig.apiKeyHash, authConfig.oauth) # {}
  /\ UNCHANGED <<regVars, operation, reqVars, doVars, evVars, histVars, authConfig, bundleVars>>

\* ---- bindings: lib/bindings.ts and formatBindings ----

Kinds == {"d1", "kv", "r2"}
BindingNames == {"A", "B"}
ResourceIds == {"x", "y"}
\* an item of a binding array: a name alone (id "") or a name with its resource id
Items == [name : BindingNames, id : ResourceIds \cup {""}]
ItemLists == UNION {[1..n -> Items] : n \in 0..MaxItems}
\* a BindingInput: the snapshot's bindings, or the bindings column of the service
BindingInputs == [d1 : ItemLists, kv : ItemLists, r2 : ItemLists, secrets : {<<>>, <<"S">>}]

\* extractBindings: per kind the names in array order, kept only when there are
\* some, and the name -> id mapping of the items that carry an id (a later item of
\* the same name overwrites), kept only when it has entries
ExtractBindings(input) ==
  LET names(k) == [i \in 1..Len(input[k]) |-> input[k][i].name]
      withId(k) == {i \in 1..Len(input[k]) : input[k][i].id # ""}
      lastOf(k, n) == CHOOSE i \in withId(k) :
                        /\ input[k][i].name = n
                        /\ \A j \in withId(k) : input[k][j].name = n => j <= i
      mapped(k) == {input[k][i].name : i \in withId(k)}
      listed == {k \in Kinds : Len(input[k]) > 0}
                  \cup (IF Len(input.secrets) > 0 THEN {"secrets"} ELSE {})
  IN [bindings |-> [k \in listed |-> IF k = "secrets" THEN input.secrets ELSE names(k)],
      bindingConfig |-> [k \in {k \in Kinds : mapped(k) # {}} |->
                           [n \in mapped(k) |-> input[k][lastOf(k, n)].id]]]

\* mergeBindingConfig: { ...fallback, ...primary } per kind
MergeBindingConfig(primary, fallback) ==
  [k \in DOMAIN primary \cup DOMAIN fallback |->
     LET a == IF k \in DOMAIN primary THEN primary[k] ELSE <<>>
         b == IF k \in DOMAIN fallback THEN fallback[k] ELSE <<>>
     IN [n \in DOMAIN a \cup DOMAIN b |-> IF n \in DOMAIN a THEN a[n] ELSE b[n]]]

\* formatBindings: one entry per name of each kind, d1 then kv then r2; the resource
\* is the configured id, or the name itself when none is configured
FormatBindings(bindings, config) ==
  LET entries(k) ==
        IF k \notin DOMAIN bindings THEN <<>>
        ELSE [i \in 1..Len(bindings[k]) |->
                [type |-> k, name |-> bindings[k][i],
                 resource |-> IF k \in DOMAIN config /\ bindings[k][i] \in DOMAIN config[k]
                              THEN config[k][bindings[k][i]]
                              ELSE bindings[k][i]]]
  IN entries("d1") \o entries("kv") \o entries("r2")

\* RollbackService.rollback: the names are the snapshot's when it lists any binding,
\* else the service's; the ids are merged, the snapshot's first
RollbackBindings(snapshot, server) ==
  LET snapshotBindings == ExtractBindings(snapshot)
      serverBindings == ExtractBindings(server)
      bindings == IF DOMAIN snapshotBindings.bindings # {}
                  THEN snapshotBindings.bindings
                  ELSE serverBindings.bindings
  IN FormatBindings(bindings,
       MergeBindingConfig(snapshotBindings.bindingConfig, serverBindings.bindingConfig))

\* a rollback computes the bindings it deploys
RollbackBindingsCall ==
  /\ call = NoCall
  /\ \E snapshot, server \in BindingInputs :
       call' = [fn |-> "formatBindings", by |-> "rollback",
                snapshot |-> snapshot, server |-> server,
                deployed |-> RollbackBindings(snapshot, server)]
  /\ UNCHANGED <<regVars, operation, reqVars, doVars, evVars, histVars, authConfig, bundleVars>>

\* ---- WorkerGenerator: tool names ----

Letters == {"a", "Z", "t", "o", "l"}
Digits == {"7"}
\* [a-zA-Z0-9_]
IdentifierChars == Letters \cup Digits \cup {"_"}
\* the characters tool names are drawn from: a letter of each case, the underscore,
\* a digit, a dash and a blank
NameChars == {"a", "Z", "_", "7", "-", " "}
ToolNames == UNION {[1..n -> NameChars] : n \in 0..MaxLen}

\* toSafeIdentifier without the prefix for a leading digit
ToSafeIdentifierNoPrefix(name) ==
  LET normalized == [i \in 1..Len(name) |->
                       IF name[i] \in IdentifierChars THEN name[i] ELSE "_"]
  IN IF normalized = <<>> THEN <<"t", "o", "o", "l">> ELSE normalized

\* toSafeIdentifier: name.replace(/[^a-zA-Z0-9_]/g, '_'); 'tool' when that is
\* empty; 'tool_' before it when it starts with a digit
ToSafeIdentifier(name) ==
  LET normalized == [i \in 1..Len(name) |->
                       IF name[i] \in IdentifierChars THEN name[i] ELSE "_"]
  IN IF normalized = <<>> THEN <<"t", "o", "o", "l">>
     ELSE IF normalized[1] \in Digits THEN <<"t", "o", "o", "l", "_">> \o normalized
     ELSE normalized

\* generateToolsCode names a tool's handler and schema
SafeIdentifierCall ==
  /\ call = NoCall
  /\ \E name \in ToolNames :
       call' = [fn |-> "toSafeIdentifier", name |-> name, result |-> ToSafeIdentifier(name)]
  /\ UNCHANGED <<regVars, operation, reqVars, doVars, evVars, histVars, authConfig, bundleVars>>

\* the tool lists of a version: two tools with distinct names (the names kept short)
ToolLists ==
  LET short == UNION {[1..n -> NameChars] : n \in 0..2}
  IN {names \in short \X short : names[1] # names[2]}

\* generateToolsCode: the identifiers it declares, per tool `${safeName}Handler` and
\* `${safeName}Schema`, in the order of the tools
DeclaredBy(name) ==
  << <<ToSafeIdentifier(name), "Handler">>, <<ToSafeIdentifier(name), "Schema">> >>
GenerateToolsCode(names) == DeclaredBy(names[1]) \o DeclaredBy(names[2])

\* generateWorkerScript declares the handlers and schemas of the tools of a version
ToolsCodeCall ==
  /\ call = NoCall
  /\ \E names \in ToolLists :
       call' = [fn |-> "generateToolsCode", names |-> names,
                declared |-> GenerateToolsCode(names)]
  /\ UNCHANGED <<regVars, operation, reqVars, doVars, evVars, histVars, authConfig, bundleVars>>

\* ---- WorkerGenerator: handler fragments ----

\* a handler fragment as its tokens: the keyword function, the arrow, the braces,
\* any other text, and white space
HandlerTokens == {"function", "=>", "{", "}", "x", " "}
\* depth after the characters from..to of the scan
Depth(source, from, to) ==
  Cardinality({i \in from..to : source[i] = "{"})
    - Cardinality({i \in from..to : source[i] = "}"})
\* handlers are JavaScript that parses: every brace is closed and none closes early
Handlers == {t \in UNION {[1..n -> HandlerTokens] : n \in 0..MaxLen} :
               /\ Depth(t, 1, Len(t)) = 0
               /\ \A i \in 1..Len(t) : Depth(t, 1, i) >= 0}

\* String.prototype.trim
Trim(t) ==
  LET inked == {i \in 1..Len(t) : t[i] # " "}
  IN IF inked = {} THEN <<>>
     ELSE SubSeq(t, CHOOSE i \in inked : \A j \in inked : i <= j,
                    CHOOSE i \in inked : \A j \in inked : j <= i)

\* /\bfunction\b/.test(trimmed) || /=>\s*\{/.test(trimmed)
LooksLikeFunction(t) ==
  \/ \E i \in 1..Len(t) : t[i] = "function"
  \/ \E i, j \in 1..Len(t) :
       /\ i < j /\ t[i] = "=>" /\ t[j] = "{"
       /\ \A k \in (i + 1)..(j - 1) : t[k] = " "

\* extractFunctionBody: from the first brace to the brace that closes it; null
\* when there is no brace or it is never closed
NoBody == [found |-> FALSE, body |-> <<>>]
ExtractFunctionBody(source) ==
  LET opens == {i \in 1..Len(source) : source[i] = "{"}
  IN IF opens = {} THEN NoBody
     ELSE LET braceIndex == CHOOSE i \in opens : \A j \in opens : i <= j
              closes == {i \in braceIndex..Len(source) : Depth(source, braceIndex, i) = 0}
          IN IF closes = {} THEN NoBody
             ELSE [found |-> TRUE,
                   body |-> Trim(SubSeq(source, braceIndex + 1,
                                        (CHOOSE i \in closes : \A j \in closes : i <= j) - 1))]

\* normalizeHandlerBody
NormalizeHandlerBody(handler) ==
  LET trimmed == Trim(handler)
      extracted == ExtractFunctionBody(trimmed)
  IN IF trimmed = <<>> THEN <<>>
     ELSE IF ~LooksLikeFunction(trimmed) THEN trimmed
     ELSE IF extracted.found THEN extracted.body ELSE trimmed

\* generateToolsCode embeds a tool's handler
NormalizeHandlerCall ==
  /\ call = NoCall
  /\ \E handler \in Handlers :
       call' = [fn |-> "normalizeHandlerBody", handler |-> handler,
                result |-> NormalizeHandlerBody(handler)]
  /\ UNCHANGED <<regVars, operation, reqVars, doVars, evVars, histVars, authConfig, bundleVars>>

\* PATCH /api/tools/:mcpId stores each handler as the route's normalizeHandlerBody
\* returns it (the same text as the generator's), and a publish embeds what
\* generateToolsCode makes of the stored handler
SaveThenPublishCall ==
  /\ call = NoCall
  /\ \E handler \in Handlers :
       LET stored == NormalizeHandlerBody(handler)
       IN call' = [fn |-> "saveThenPublish", handler |-> handler, stored |-> stored,
                   embedded |-> IF stored = <<>> THEN <<>> ELSE NormalizeHandlerBody(stored)]
  /\ UNCHANGED <<regVars, operation, reqVars, doVars, evVars, histVars, authConfig, bundleVars>>

\* ---- WorkerGenerator: input schemas ----

PropertyKeys == {"p", "q"}
RECURSIVE SchemasTo(_)
\* JSON schemas nested to a depth: a string, a type the generator does not know, an
\* array of a schema, an object with properties and the list of the required ones
SchemasTo(depth) ==
  IF depth = 0 THEN {[type |-> "string"], [type |-> "null"]}
  ELSE LET inner == SchemasTo(depth - 1)
       IN inner
          \cup {[type |-> "array", items |-> item] : item \in inner}
          \cup UNION {{[type |-> "object", properties |-> props, required |-> required] :
                          props \in [keys -> inner], required \in SUBSET PropertyKeys} :
                      keys \in SUBSET PropertyKeys}
InputSchemas == SchemasTo(MaxDepth)

RECURSIVE GenerateZodSchemaAllOptional(_)
\* generateZodSchema with .optional() put on every property
GenerateZodSchemaAllOptional(schema) ==
  IF schema.type = "object"
  THEN [kind |-> "object",
        shape |-> [key \in DOMAIN schema.properties |->
                     [schema |-> GenerateZodSchemaAllOptional(schema.properties[key]),
                      optional |-> TRUE]]]
  ELSE IF schema.type = "string" THEN [kind |-> "string"]
  ELSE IF schema.type = "array"
  THEN [kind |-> "array", element |-> GenerateZodSchemaAllOptional(schema.items)]
  ELSE [kind |-> "any"]

RECURSIVE GenerateZodSchema(_)
\* generateZodSchema: the validator expression it writes, as a tree. An object
\* becomes z.object of its properties, each compiled in turn and given .optional()
\* unless its key is in the object's required list
GenerateZodSchema(schema) ==
  IF schema.type = "object"
  THEN [kind |-> "object",
        shape |-> [key \in DOMAIN schema.properties |->
                     [schema |-> GenerateZodSchema(schema.properties[key]),
                      optional |-> key \notin schema.required]]]
  ELSE IF schema.type = "string" THEN [kind |-> "string"]
  ELSE IF schema.type = "array"
  THEN [kind |-> "array", element |-> GenerateZodSchema(schema.items)]
  ELSE [kind |-> "any"]

\* generateToolsCode compiles a tool's inputSchema
ZodSchemaCall ==
  /\ call = NoCall
  /\ \E schema \in InputSchemas :
       call' = [fn |-> "generateZodSchema", schema |-> schema,
                result |-> GenerateZodSchema(schema)]
  /\ UNCHANGED <<regVars, operation, reqVars, doVars, evVars, histVars, authConfig, bundleVars>>

\* ---- BundleService and POST /api/versions/:mcpId ----

\* r2.put with a key that is taken only when no object is stored under it
R2PutIfAbsent(store, key, value) ==
  IF store[key] = NoObject THEN [store EXCEPT ![key] = value] ELSE store

\* r2.put: the object under the key is replaced
R2Put(store, key, value) == [store EXCEPT ![key] = value]

\* getBundle: the text of the object under the key, null without one
BundleServiceGetBundle(key) == bucket[key]

\* createBundle's upload and what it returns (the byte size is left out)
CreateBundle(version, sourceCode) ==
  LET hash == GenerateHash(sourceCode)
      key == BundleKey(version, hash)
  IN [store |-> R2Put(bucket, key, sourceCode), key |-> key, hash |-> hash]

\* one call of createBundle
CreateBundleCall ==
  \E version \in CreateVersions, sourceCode \in SourceCodes :
    LET made == CreateBundle(version, sourceCode)
        this == [version |-> version, sourceCode |-> sourceCode,
                 key |-> made.key, hash |-> made.hash]
    IN /\ bucket' = made.store
       /\ call' = [fn |-> "createBundle", version |-> version, sourceCode |-> sourceCode,
                   key |-> made.key, hash |-> made.hash,
                   again |-> \E earlier \in bundleCalls :
                               /\ earlier.version = version
                               /\ earlier.sourceCode = sourceCode]
       /\ bundleCalls' = bundleCalls \cup {this}
       /\ UNCHANGED <<regVars, operation, reqVars, doVars, evVars, histVars, authConfig,
                      versionRows, creates, updates>>

\* UNIQUE(mcp_id, version) of mcp_versions, for the one service of the model
UniqueVersion(rows, row) == \A other \in rows : other.version # row.version

\* the route up to its first answer: the service exists, the version is looked up and
\* a found one is answered 409
CreateVersionCheck(r) ==
  /\ creates[r].pc = "idle"
  /\ \E version \in CreateVersions, sourceCode \in SourceCodes :
       LET existingVersion == {row \in versionRows : row.version = version}
       IN creates' = [creates EXCEPT ![r] =
            [pc |-> IF existingVersion # {} THEN "done" ELSE "c_bundle",
             version |-> version, sourceCode |-> sourceCode,
             status |-> IF existingVersion # {} THEN "409" ELSE "",
             bundleKey |-> NoKey]]
  /\ UNCHANGED <<regVars, operation, reqVars, doVars, evVars, histVars, callVars,
                 bucket, versionRows, bundleCalls, updates>>

\* await bundleService.createBundle(mcpId, body.version, body.sourceCode)
CreateVersionBundle(r) ==
  /\ creates[r].pc = "c_bundle"
  /\ LET made == CreateBundle(creates[r].version, creates[r].sourceCode)
     IN /\ bucket' = made.store
        /\ bundleCalls' = bundleCalls \cup
             {[version |-> creates[r].version, sourceCode |-> creates[r].sourceCode,
               key |-> made.key, hash |-> made.hash]}
        /\ creates' = [creates EXCEPT ![r].pc = "c_insert", ![r].bundleKey = made.key]
  /\ UNCHANGED <<regVars, operation, reqVars, doVars, evVars, histVars, callVars,
                 versionRows, updates>>

\* await db.insert(mcpVersions): the row is written and the answer is 201, or the
\* insert throws on the unique constraint and the uncaught error is answered 500
CreateVersionInsert(r) ==
  /\ creates[r].pc = "c_insert"
  /\ LET row == [id |-> r, version |-> creates[r].version,
                 bundleKey |-> creates[r].bundleKey]
     IN IF UniqueVersion(versionRows, row)
        THEN /\ versionRows' = versionRows \cup {row}
             /\ creates' = [creates EXCEPT ![r].pc = "done", ![r].status = "201"]
        ELSE /\ creates' = [creates EXCEPT ![r].pc = "done", ![r].status = "500"]
             /\ UNCHANGED versionRows
  /\ UNCHANGED <<regVars, operation, reqVars, doVars, evVars, histVars, callVars,
                 bucket, bundleCalls, updates>>

\* ---- PATCH /api/tools/:mcpId ----

\* incrementVersion: the patch part plus one
IncrementVersion(version) == [version EXCEPT ![3] = @ + 1]

\* deleteBundle: best-effort; the stores the call can leave behind are the one
\* without the object under the key and, when the delete did not go through, the
\* one it found
DeleteBundle(store, key) == {[store EXCEPT ![key] = NoObject], store}

\* the version of the row created last, undefined (<<>>) without rows
LatestVersion(rows) ==
  IF rows = {} THEN <<>>
  ELSE (CHOOSE row \in rows : \A other \in rows : other.createdAt <= row.createdAt).version

\* the route up to its loop: the tools of the body, the service row, and the version
\* of the active row as base; the active row is whichever stored row a publish has
\* activated, or none
UpdateStart(r) ==
  /\ updates[r].pc = "idle"
  /\ \E tools \in ToolBodies, base \in {<<>>} \cup {row.version : row \in versionRows} :
       updates' = [updates EXCEPT ![r] =
         [NoUpdate EXCEPT !.pc = "u_bundle", !.tools = tools, !.baseVersion = base]]
  /\ UNCHANGED <<regVars, operation, reqVars, doVars, evVars, histVars, callVars,
                 bucket, versionRows, creates, bundleCalls>>

\* the head of an attempt: newVersion, sourceCode, await createBundle
UpdateBundle(r) ==
  /\ updates[r].pc = "u_bundle"
  /\ LET newVersion == IF updates[r].baseVersion = <<>> THEN <<1, 0, 0>>
                       ELSE IncrementVersion(updates[r].baseVersion)
         sourceCode == UpdateSourceCode(updates[r].tools, newVersion)
         made == CreateBundle(newVersion, sourceCode)
     IN /\ bucket' = made.store
        /\ bundleCalls' = bundleCalls \cup
             {[version |-> newVersion, sourceCode |-> sourceCode,
               key |-> made.key, hash |-> made.hash]}
        /\ updates' = [updates EXCEPT ![r].pc = "u_insert", ![r].version = newVersion,
                                      ![r].bundleKey = made.key]
  /\ UNCHANGED <<regVars, operation, reqVars, doVars, evVars, histVars, callVars,
                 versionRows, creates>>

\* await db.insert(mcpVersions): the row is written and the route answers, or the
\* insert throws, on the unique constraint or on another error
UpdateInsert(r) ==
  /\ updates[r].pc = "u_insert"
  /\ LET row == [id |-> <<r, updates[r].attempt>>, version |-> updates[r].version,
                 bundleKey |-> updates[r].bundleKey,
                 createdAt |-> Cardinality(versionRows) + 1]
     IN IF ~UniqueVersion(versionRows, row)
        THEN /\ updates' = [updates EXCEPT ![r].pc = "u_delete", ![r].unique = TRUE]
             /\ UNCHANGED versionRows
        ELSE \E ok \in BOOLEAN :
               IF ok
               THEN /\ versionRows' = versionRows \cup {row}
                    /\ updates' = [updates EXCEPT ![r].pc = "done", ![r].status = "200"]
               ELSE /\ updates' = [updates EXCEPT ![r].pc = "u_delete",
                                                  ![r].unique = FALSE]
                    /\ UNCHANGED versionRows
  /\ UNCHANGED <<regVars, operation, reqVars, doVars, evVars, histVars, callVars,
                 bucket, creates, bundleCalls>>

\* catch: await deleteBundle(bundle.key); an error that is no unique conflict is
\* thrown on and answered 500
UpdateDelete(r) ==
  /\ updates[r].pc = "u_delete"
  /\ bucket' \in DeleteBundle(bucket, updates[r].bundleKey)
  /\ updates' = [updates EXCEPT ![r].pc = IF updates[r].unique THEN "u_latest" ELSE "done",
                                ![r].status = IF updates[r].unique THEN @ ELSE "500"]
  /\ UNCHANGED <<regVars, operation, reqVars, doVars, evVars, histVars, callVars,
                 versionRows, creates, bundleCalls>>

\* the latest row is read as the next base; after the third attempt the answer is 409
UpdateLatest(r) ==
  /\ updates[r].pc = "u_latest"
  /\ updates' = [updates EXCEPT
       ![r].baseVersion = LatestVersion(versionRows),
       ![r].attempt = @ + 1,
       ![r].pc = IF updates[r].attempt + 1 < MaxAttempts THEN "u_bundle" ELSE "done",
       ![r].status = IF updates[r].attempt + 1 < MaxAttempts THEN @ ELSE "409"]
  /\ UNCHANGED <<regVars, operation, reqVars, doVars, evVars, histVars, callVars,
                 bucket, versionRows, creates, bundleCalls>>

\* ---- subscribers of a broadcaster ----

RemoveConn(set, s) == SelectSeq(set, LAMBDA c : c # s)

\* handleSSE: the controller joins the connections and, when the broadcaster has a
\* state, is sent one `state` message holding it. A subscriber opens a stream, and
\* opens another one after the 5 minute timer has closed the earlier one
Connect(s, d) ==
  /\ sub[s].status \in {"idle", "closed"}
  /\ sessions[s] < MaxSessions
  /\ sessions' = [sessions EXCEPT ![s] = @ + 1]
  /\ HandlerFor(StreamRequest) = "handleSSE"
  /\ conns' = [conns EXCEPT ![d] = Append(@, s)]
  /\ received' = [received EXCEPT ![s] =
       IF bstate[d] # NoState THEN <<[type |-> "state", data |-> bstate[d]]>> ELSE <<>>]
  /\ sub' = [sub EXCEPT ![s] = [dep |-> d, status |-> "open"]]
  /\ UNCHANGED <<regVars, operation, reqVars, bstate, evVars>>

RECURSIVE CancelSweep(_, _)
\* cancel: connections.forEach visits each controller in insertion order and deletes
\* the visited one when it is the first of the set at that moment
CancelSweep(toVisit, set) ==
  IF toVisit = <<>> THEN set
  ELSE IF set # <<>> /\ Head(toVisit) = Head(set)
       THEN CancelSweep(Tail(toVisit), Tail(set))
       ELSE CancelSweep(Tail(toVisit), set)

\* the consumer of a stream cancels it
Cancel(s) ==
  /\ sub[s].status = "open"
  /\ conns' = [conns EXCEPT ![sub[s].dep] = CancelSweep(@, @)]
  /\ sub' = [sub EXCEPT ![s].status = "cancelled"]
  /\ UNCHANGED sessions
  /\ UNCHANGED <<regVars, operation, reqVars, bstate, received, evVars>>

\* the 5 minute timer closing the controller without deleting it from the connections
SessionTimeoutKeepsConnection(s) ==
  /\ sub[s].status = "open"
  /\ sub' = [sub EXCEPT ![s].status = "closed"]
  /\ UNCHANGED <<regVars, operation, reqVars, bstate, conns, received, sessions, evVars>>

\* the 5 minute timer: the controller leaves the connections and is closed
SessionTimeout(s) ==
  /\ sub[s].status = "open"
  /\ conns' = [conns EXCEPT ![sub[s].dep] = RemoveConn(@, s)]
  /\ sub' = [sub EXCEPT ![s].status = "closed"]
  /\ UNCHANGED sessions
  /\ UNCHANGED <<regVars, operation, reqVars, bstate, received, evVars>>

\* ---- DeploymentStateDO: the methods that take events ----
\* fetch dispatches to none of them (HandlerFor); they are modelled as they are
\* written, applied to the broadcaster directly.

\* the state addLog and addProgress create when there is none
StartedState == [status |-> "in_progress", logs |-> <<>>, error |-> "", completed |-> FALSE]

\* addLog: the log is pushed on the snapshot's logs
StateAddLog(st) ==
  LET base == IF st = NoState THEN StartedState ELSE st
  IN [base EXCEPT !.logs = Append(@, LogEvent)]

\* addProgress: creates the state when there is none; the progress event is not kept
StateAddProgress(st) == IF st = NoState THEN StartedState ELSE st

\* updateStatus: sets status, error when given, completedAt when terminal
StateUpdateStatus(st, status, error) ==
  LET base == IF st = NoState THEN [StartedState EXCEPT !.status = status] ELSE st
  IN [base EXCEPT !.status = status,
                  !.error = IF error # "" THEN error ELSE @,
                  !.completed = IF status \in Terminal THEN TRUE ELSE @]

\* the stream of a subscriber stops taking messages without its cancel callback or
\* its timer having run: from then on controller.enqueue throws
StreamBreaks(s) ==
  /\ sub[s].status = "open"
  /\ sub' = [sub EXCEPT ![s].status = "errored"]
  /\ UNCHANGED <<regVars, operation, reqVars, bstate, conns, received, sessions, evVars>>

\* the controllers of a set that come before the first one whose enqueue throws
Reached(set) ==
  LET failing == {i \in 1..Len(set) : sub[set[i]].status # "open"}
  IN IF failing = {} THEN set
     ELSE SubSeq(set, 1, (CHOOSE i \in failing : \A j \in failing : i <= j) - 1)

\* broadcast leaving its loop at the first enqueue that throws, after deleting that
\* controller
BroadcastStopsAtFailure(d, msg) ==
  /\ received' = [s \in Subs |->
       IF RemoveConn(Reached(conns[d]), s) # Reached(conns[d])
       THEN Append(received[s], msg) ELSE received[s]]
  /\ conns' = [conns EXCEPT ![d] =
       IF Reached(@) = @ THEN @
       ELSE Reached(@) \o SubSeq(@, Len(Reached(@)) + 2, Len(@))]

\* broadcast: the message is enqueued on every controller of the set; a controller
\* whose stream is no longer open throws and is deleted
Broadcast(d, msg) ==
  /\ received' = [s \in Subs |->
       IF RemoveConn(conns[d], s) # conns[d] /\ sub[s].status = "open"
       THEN Append(received[s], msg) ELSE received[s]]
  /\ conns' = [conns EXCEPT ![d] = SelectSeq(@, LAMBDA c : sub[c].status = "open")]

\* the streams have room for one more message
RoomFor(d) == \A s \in Subs : Len(received[s]) < MaxReceived

HandleInitialize(d) ==
  /\ bstate' = [bstate EXCEPT ![d] = FetchState(@, PostRequest("initialize"))]
  /\ UNCHANGED <<regVars, operation, reqVars, conns, received, sub, sessions, evVars, histVars, callVars, bundleVars>>

HandleLog(d) ==
  /\ RoomFor(d)
  /\ Len(bstate[d].logs) < MaxLogs
  /\ bstate' = [bstate EXCEPT ![d] = StateAddLog(@)]
  /\ Broadcast(d, LogEvent)
  /\ UNCHANGED <<regVars, operation, reqVars, sub, sessions, evVars, histVars, callVars, bundleVars>>

HandleProgress(d) ==
  /\ RoomFor(d)
  /\ \E ev \in {ProgressEvent("deploying", 70), ProgressEvent("completed", 100)} :
       Broadcast(d, ev)
  /\ bstate' = [bstate EXCEPT ![d] = StateAddProgress(@)]
  /\ UNCHANGED <<regVars, operation, reqVars, sub, sessions, evVars, histVars, callVars, bundleVars>>

HandleUpdateStatus(d) ==
  /\ RoomFor(d)
  /\ \E status \in {"in_progress", "completed", "failed"}, error \in {"", "boom"} :
       /\ error # "" => status = "failed"
       /\ bstate' = [bstate EXCEPT ![d] = StateUpdateStatus(@, status, error)]
       /\ Broadcast(d, StatusEvent(status, error))
  /\ UNCHANGED <<regVars, operation, reqVars, sub, sessions, evVars, histVars, callVars, bundleVars>>

\* ---- specifications ----

NoneInFlight == \A q \in Reqs : pc[q] \in {"idle", "done"}
NoneStarted == \A q \in Reqs : pc[q] = "idle"
\* No /log post is on its way. A /log post changes nothing but the broadcaster it
\* reaches and commutes with every step of every request, so where the order of
\* arrival is not what is examined the posts are taken to arrive before the next step.
LogsDelivered == \A d \in Reqs : inflight[d] = 0

\* the history a request's start records: the registry as it finds it
Record(r) ==
  /\ before' = [before EXCEPT ![r] = Registry]
  /\ order' = Append(order, r)

\* Requests of one service running concurrently.
Next ==
  \/ \E r \in Reqs : LogsDelivered /\ StartPublish(r) /\ UNCHANGED <<histVars, callVars, bundleVars>>
  \/ \E r \in Reqs : LogsDelivered /\ StartRollbackRoute(r) /\ UNCHANGED <<histVars, callVars, bundleVars>>
  \/ \E r \in Reqs : LogsDelivered /\ StartRollbackActor(r) /\ UNCHANGED <<histVars, callVars, bundleVars>>
  \/ \E r \in Reqs : LogsDelivered /\ RouteInitialize(r) /\ UNCHANGED <<histVars, callVars, bundleVars>>
  \/ \E r \in Reqs : LogsDelivered /\ RouteSendPublish(r) /\ UNCHANGED <<histVars, callVars, bundleVars>>
  \/ \E r \in Reqs : LogsDelivered /\ RouteSendFails(r) /\ UNCHANGED <<histVars, callVars, bundleVars>>
  \/ \E r \in Reqs : LogsDelivered /\ RouteFailRecord(r) /\ UNCHANGED <<histVars, callVars, bundleVars>>
  \/ \E r \in Reqs : LogsDelivered /\ RouteFailPost(r) /\ UNCHANGED <<histVars, callVars, bundleVars>>
  \/ \E r \in Reqs : LogsDelivered /\ EmitInProgress(r) /\ UNCHANGED <<histVars, callVars, bundleVars>>
  \/ \E r \in Reqs : LogsDelivered /\ EmitInitializing(r) /\ UNCHANGED <<histVars, callVars, bundleVars>>
  \/ \E r \in Reqs : LogsDelivered /\ EmitFetchingBundle(r) /\ UNCHANGED <<histVars, callVars, bundleVars>>
  \/ \E r \in Reqs : LogsDelivered /\ GetBundle(r) /\ UNCHANGED <<histVars, callVars, bundleVars>>
  \/ \E r \in Reqs : LogsDelivered /\ EmitPreparingWorker(r) /\ UNCHANGED <<histVars, callVars, bundleVars>>
  \/ \E r \in Reqs : LogsDelivered /\ EmitDeploying(r) /\ UNCHANGED <<histVars, callVars, bundleVars>>
  \/ \E r \in Reqs : LogsDelivered /\ DeployWorker(r) /\ UNCHANGED <<histVars, callVars, bundleVars>>
  \/ \E r \in Reqs : LogsDelivered /\ EmitUpdatingRouting(r) /\ UNCHANGED <<histVars, callVars, bundleVars>>
  \/ \E r \in Reqs : LogsDelivered /\ UpdateServer(r) /\ UNCHANGED <<histVars, callVars, bundleVars>>
  \/ \E r \in Reqs : LogsDelivered /\ DeactivateActive(r) /\ UNCHANGED <<histVars, callVars, bundleVars>>
  \/ \E r \in Reqs : LogsDelivered /\ ActivateVersion(r) /\ UNCHANGED <<histVars, callVars, bundleVars>>
  \/ \E r \in Reqs : LogsDelivered /\ CompleteRecord(r) /\ UNCHANGED <<histVars, callVars, bundleVars>>
  \/ \E r \in Reqs : LogsDelivered /\ EmitCompletedStatus(r) /\ UNCHANGED <<histVars, callVars, bundleVars>>
  \/ \E r \in Reqs : LogsDelivered /\ EmitCompleted(r) /\ UNCHANGED <<histVars, callVars, bundleVars>>
  \/ \E r \in Reqs : LogsDelivered /\ FailRecord(r) /\ UNCHANGED <<histVars, callVars, bundleVars>>
  \/ \E r \in Reqs : LogsDelivered /\ EmitFailedStatus(r) /\ UNCHANGED <<histVars, callVars, bundleVars>>
  \/ \E r \in Reqs : LogsDelivered /\ EmitFailed(r) /\ UNCHANGED <<histVars, callVars, bundleVars>>
  \/ \E r \in Reqs : LogsDelivered /\ RollbackNotFound(r) /\ UNCHANGED <<histVars, callVars, bundleVars>>
  \/ \E r \in Reqs : LogsDelivered /\ RollbackDeactivate(r) /\ UNCHANGED <<histVars, callVars, bundleVars>>
  \/ \E r \in Reqs : LogsDelivered /\ RollbackActivate(r) /\ UNCHANGED <<histVars, callVars, bundleVars>>
  \/ \E r \in Reqs : LogsDelivered /\ RollbackGetBundle(r) /\ UNCHANGED <<histVars, callVars, bundleVars>>
  \/ \E r \in Reqs : LogsDelivered /\ RollbackDeploy(r) /\ UNCHANGED <<histVars, callVars, bundleVars>>
  \/ \E r \in Reqs : LogsDelivered /\ RollbackUpdateServer(r) /\ UNCHANGED <<histVars, callVars, bundleVars>>
  \/ \E r \in Reqs : LogsDelivered /\ RollbackRecord(r) /\ UNCHANGED <<histVars, callVars, bundleVars>>
  \/ \E d \in Reqs : DeliverLog(d) /\ UNCHANGED <<histVars, callVars, bundleVars>>

Spec == Init /\ [][Next]_vars

\* Requests of one service issued one after the other: a request starts only when
\* none is in flight.
NextSeq ==
  \/ \E r \in Reqs : NoneInFlight /\ LogsDelivered /\ StartPublish(r) /\ Record(r) /\ UNCHANGED <<callVars, bundleVars>>
  \/ \E r \in Reqs : NoneInFlight /\ LogsDelivered /\ StartRollbackRoute(r) /\ Record(r) /\ UNCHANGED <<callVars, bundleVars>>
  \/ \E r \in Reqs : NoneInFlight /\ LogsDelivered /\ StartRollbackActor(r) /\ Record(r) /\ UNCHANGED <<callVars, bundleVars>>
  \/ \E r \in Reqs : LogsDelivered /\ RouteInitialize(r) /\ UNCHANGED <<histVars, callVars, bundleVars>>
  \/ \E r \in Reqs : LogsDelivered /\ RouteSendPublish(r) /\ UNCHANGED <<histVars, callVars, bundleVars>>
  \/ \E r \in Reqs : LogsDelivered /\ RouteSendFails(r) /\ UNCHANGED <<histVars, callVars, bundleVars>>
  \/ \E r \in Reqs : LogsDelivered /\ RouteFailRecord(r) /\ UNCHANGED <<histVars, callVars, bundleVars>>
  \/ \E r \in Reqs : LogsDelivered /\ RouteFailPost(r) /\ UNCHANGED <<histVars, callVars, bundleVars>>
  \/ \E r \in Reqs : LogsDelivered /\ EmitInProgress(r) /\ UNCHANGED <<histVars, callVars, bundleVars>>
  \/ \E r \in Reqs : LogsDelivered /\ EmitInitializing(r) /\ UNCHANGED <<histVars, callVars, bundleVars>>
  \/ \E r \in Reqs : LogsDelivered /\ EmitFetchingBundle(r) /\ UNCHANGED <<histVars, callVars, bundleVars>>
  \/ \E r \in Reqs : LogsDelivered /\ GetBundle(r) /\ UNCHANGED <<histVars, callVars, bundleVars>>
  \/ \E r \in Reqs : LogsDelivered /\ EmitPreparingWorker(r) /\ UNCHANGED <<histVars, callVars, bundleVars>>
  \/ \E r \in Reqs : LogsDelivered /\ EmitDeploying(r) /\ UNCHANGED <<histVars, callVars, bundleVars>>
  \/ \E r \in Reqs : LogsDelivered /\ DeployWorker(r) /\ UNCHANGED <<histVars, callVars, bundleVars>>
  \/ \E r \in Reqs : LogsDelivered /\ EmitUpdatingRouting(r) /\ UNCHANGED <<histVars, callVars, bundleVars>>
  \/ \E r \in Reqs : LogsDelivered /\ UpdateServer(r) /\ UNCHANGED <<histVars, callVars, bundleVars>>
  \/ \E r \in Reqs : LogsDelivered /\ DeactivateActive(r) /\ UNCHANGED <<histVars, callVars, bundleVars>>
  \/ \E r \in Reqs : LogsDelivered /\ ActivateVersion(r) /\ UNCHANGED <<histVars, callVars, bundleVars>>
  \/ \E r \in Reqs : LogsDelivered /\ CompleteRecord(r) /\ UNCHANGED <<histVars, callVars, bundleVars>>
  \/ \E r \in Reqs : LogsDelivered /\ EmitCompletedStatus(r) /\ UNCHANGED <<histVars, callVars, bundleVars>>
  \/ \E r \in Reqs : LogsDelivered /\ EmitCompleted(r) /\ UNCHANGED <<histVars, callVars, bundleVars>>
  \/ \E r \in Reqs : LogsDelivered /\ FailRecord(r) /\ UNCHANGED <<histVars, callVars, bundleVars>>
  \/ \E r \in Reqs : LogsDelivered /\ EmitFailedStatus(r) /\ UNCHANGED <<histVars, callVars, bundleVars>>
  \/ \E r \in Reqs : LogsDelivered /\ EmitFailed(r) /\ UNCHANGED <<histVars, callVars, bundleVars>>
  \/ \E r \in Reqs : LogsDelivered /\ RollbackNotFound(r) /\ UNCHANGED <<histVars, callVars, bundleVars>>
  \/ \E r \in Reqs : LogsDelivered /\ RollbackDeactivate(r) /\ UNCHANGED <<histVars, callVars, bundleVars>>
  \/ \E r \in Reqs : LogsDelivered /\ RollbackActivate(r) /\ UNCHANGED <<histVars, callVars, bundleVars>>
  \/ \E r \in Reqs : LogsDelivered /\ RollbackGetBundle(r) /\ UNCHANGED <<histVars, callVars, bundleVars>>
  \/ \E r \in Reqs : LogsDelivered /\ RollbackDeploy(r) /\ UNCHANGED <<histVars, callVars, bundleVars>>
  \/ \E r \in Reqs : LogsDelivered /\ RollbackUpdateServer(r) /\ UNCHANGED <<histVars, callVars, bundleVars>>
  \/ \E r \in Reqs : LogsDelivered /\ RollbackRecord(r) /\ UNCHANGED <<histVars, callVars, bundleVars>>
  \/ \E d \in Reqs : DeliverLog(d) /\ UNCHANGED <<histVars, callVars, bundleVars>>

SpecSeq == Init /\ [][NextSeq]_vars

\* The same, every awaited call eventually returning or throwing: a request that is
\* suspended at an await eventually takes its next step.
SpecSeqFair == SpecSeq /\ WF_vars(NextSeq)

\* Publishes sent to the actor itself, one after the other.
NextActor ==
  \/ \E r \in Reqs : NoneInFlight /\ LogsDelivered /\ StartPublishActor(r) /\ Record(r) /\ UNCHANGED <<callVars, bundleVars>>
  \/ \E r \in Reqs : LogsDelivered /\ EmitInProgress(r) /\ UNCHANGED <<histVars, callVars, bundleVars>>
  \/ \E r \in Reqs : LogsDelivered /\ EmitInitializing(r) /\ UNCHANGED <<histVars, callVars, bundleVars>>
  \/ \E r \in Reqs : LogsDelivered /\ EmitFetchingBundle(r) /\ UNCHANGED <<histVars, callVars, bundleVars>>
  \/ \E r \in Reqs : LogsDelivered /\ GetBundle(r) /\ UNCHANGED <<histVars, callVars, bundleVars>>
  \/ \E r \in Reqs : LogsDelivered /\ EmitPreparingWorker(r) /\ UNCHANGED <<histVars, callVars, bundleVars>>
  \/ \E r \in Reqs : LogsDelivered /\ EmitDeploying(r) /\ UNCHANGED <<histVars, callVars, bundleVars>>
  \/ \E r \in Reqs : LogsDelivered /\ DeployWorker(r) /\ UNCHANGED <<histVars, callVars, bundleVars>>
  \/ \E r \in Reqs : LogsDelivered /\ EmitUpdatingRouting(r) /\ UNCHANGED <<histVars, callVars, bundleVars>>
  \/ \E r \in Reqs : LogsDelivered /\ UpdateServer(r) /\ UNCHANGED <<histVars, callVars, bundleVars>>
  \/ \E r \in Reqs : LogsDelivered /\ DeactivateActive(r) /\ UNCHANGED <<histVars, callVars, bundleVars>>
  \/ \E r \in Reqs : LogsDelivered /\ ActivateVersion(r) /\ UNCHANGED <<histVars, callVars, bundleVars>>
  \/ \E r \in Reqs : LogsDelivered /\ CompleteRecord(r) /\ UNCHANGED <<histVars, callVars, bundleVars>>
  \/ \E r \in Reqs : LogsDelivered /\ EmitCompletedStatus(r) /\ UNCHANGED <<histVars, callVars, bundleVars>>
  \/ \E r \in Reqs : LogsDelivered /\ EmitCompleted(r) /\ UNCHANGED <<histVars, callVars, bundleVars>>
  \/ \E r \in Reqs : LogsDelivered /\ FailRecord(r) /\ UNCHANGED <<histVars, callVars, bundleVars>>
  \/ \E r \in Reqs : LogsDelivered /\ EmitFailedStatus(r) /\ UNCHANGED <<histVars, callVars, bundleVars>>
  \/ \E r \in Reqs : LogsDelivered /\ EmitFailed(r) /\ UNCHANGED <<histVars, callVars, bundleVars>>
  \/ \E d \in Reqs : DeliverLog(d) /\ UNCHANGED <<histVars, callVars, bundleVars>>

SpecActor == Init /\ [][NextActor]_vars

\* Rollbacks computing the bindings they deploy, for every snapshot and service.
NextBindings == RollbackBindingsCall

SpecBindings == Init /\ [][NextBindings]_vars

\* The generator's helpers applied to every tool name, handler and input schema.
NextGenerator ==
  \/ SafeIdentifierCall
  \/ NormalizeHandlerCall
  \/ ToolsCodeCall
  \/ SaveThenPublishCall

SpecGenerator == Init /\ [][NextGenerator]_vars

\* Calls of createBundle, one after another
NextBundles == CreateBundleCall
SpecBundles == Init /\ [][NextBundles]_vars

\* Create-version requests running concurrently
NextCreate ==
  \/ \E r \in Reqs : CreateVersionCheck(r)
  \/ \E r \in Reqs : CreateVersionBundle(r)
  \/ \E r \in Reqs : CreateVersionInsert(r)
SpecCreate == Init /\ [][NextCreate]_vars

\* Tools-update requests of one service running concurrently
NextUpdates ==
  \/ \E r \in Reqs : UpdateStart(r)
  \/ \E r \in Reqs : UpdateBundle(r)
  \/ \E r \in Reqs : UpdateInsert(r)
  \/ \E r \in Reqs : UpdateDelete(r)
  \/ \E r \in Reqs : UpdateLatest(r)
SpecUpdates == Init /\ [][NextUpdates]_vars

\* The generator compiling one input schema
NextSchemas == ZodSchemaCall
SpecSchemas == Init /\ [][NextSchemas]_vars

\* One publish observed by dashboards that connect, cancel and time out; the /log
\* posts arrive whenever they arrive.
NextBroadcast ==
  \/ \E r \in Reqs : NoneStarted /\ StartPublish(r) /\ UNCHANGED <<histVars, callVars, bundleVars>>
  \/ \E r \in Reqs : RouteInitialize(r) /\ UNCHANGED <<histVars, callVars, bundleVars>>
  \/ \E r \in Reqs : RouteSendPublish(r) /\ UNCHANGED <<histVars, callVars, bundleVars>>
  \/ \E r \in Reqs : RouteSendFails(r) /\ UNCHANGED <<histVars, callVars, bundleVars>>
  \/ \E r \in Reqs : RouteFailRecord(r) /\ UNCHANGED <<histVars, callVars, bundleVars>>
  \/ \E r \in Reqs : RouteFailPost(r) /\ UNCHANGED <<histVars, callVars, bundleVars>>
  \/ \E r \in Reqs : EmitInProgress(r) /\ UNCHANGED <<histVars, callVars, bundleVars>>
  \/ \E r \in Reqs : EmitInitializing(r) /\ UNCHANGED <<histVars, callVars, bundleVars>>
  \/ \E r \in Reqs : EmitFetchingBundle(r) /\ UNCHANGED <<histVars, callVars, bundleVars>>
  \/ \E r \in Reqs : GetBundle(r) /\ UNCHANGED <<histVars, callVars, bundleVars>>
  \/ \E r \in Reqs : EmitPreparingWorker(r) /\ UNCHANGED <<histVars, callVars, bundleVars>>
  \/ \E r \in Reqs : EmitDeploying(r) /\ UNCHANGED <<histVars, callVars, bundleVars>>
  \/ \E r \in Reqs : DeployWorker(r) /\ UNCHANGED <<histVars, callVars, bundleVars>>
  \/ \E r \in Reqs : EmitUpdatingRouting(r) /\ UNCHANGED <<histVars, callVars, bundleVars>>
  \/ \E r \in Reqs : UpdateServer(r) /\ UNCHANGED <<histVars, callVars, bundleVars>>
  \/ \E r \in Reqs : DeactivateActive(r) /\ UNCHANGED <<histVars, callVars, bundleVars>>
  \/ \E r \in Reqs : ActivateVersion(r) /\ UNCHANGED <<histVars, callVars, bundleVars>>
  \/ \E r \in Reqs : CompleteRecord(r) /\ UNCHANGED <<histVars, callVars, bundleVars>>
  \/ \E r \in Reqs : EmitCompletedStatus(r) /\ UNCHANGED <<histVars, callVars, bundleVars>>
  \/ \E r \in Reqs : EmitCompleted(r) /\ UNCHANGED <<histVars, callVars, bundleVars>>
  \/ \E r \in Reqs : FailRecord(r) /\ UNCHANGED <<histVars, callVars, bundleVars>>
  \/ \E r \in Reqs : EmitFailedStatus(r) /\ UNCHANGED <<histVars, callVars, bundleVars>>
  \/ \E r \in Reqs : EmitFailed(r) /\ UNCHANGED <<histVars, callVars, bundleVars>>
  \/ \E d \in Reqs : DeliverLog(d) /\ UNCHANGED <<histVars, callVars, bundleVars>>
  \/ \E s \in Subs, d \in Reqs : Connect(s, d) /\ UNCHANGED <<histVars, callVars, bundleVars>>
  \/ \E s \in Subs : Cancel(s) /\ UNCHANGED <<histVars, callVars, bundleVars>>
  \/ \E s \in Subs : SessionTimeout(s) /\ UNCHANGED <<histVars, callVars, bundleVars>>

SpecBroadcast == Init /\ [][NextBroadcast]_vars


\* The event methods applied to the broadcaster of one deployment, which dashboards
\* connect to, cancel and time out of.
OneBroadcaster(d) == \A e \in Reqs \ {d} : bstate[e] = NoState /\ conns[e] = <<>>
NextHandlers ==
  \/ \E d \in Reqs : OneBroadcaster(d) /\ HandleInitialize(d)
  \/ \E d \in Reqs : OneBroadcaster(d) /\ HandleLog(d)
  \/ \E d \in Reqs : OneBroadcaster(d) /\ HandleProgress(d)
  \/ \E d \in Reqs : OneBroadcaster(d) /\ HandleUpdateStatus(d)
  \/ \E s \in Subs, d \in Reqs :
       OneBroadcaster(d) /\ Connect(s, d) /\ UNCHANGED <<histVars, callVars, bundleVars>>
  \/ \E s \in Subs : Cancel(s) /\ UNCHANGED <<histVars, callVars, bundleVars>>
  \/ \E s \in Subs : SessionTimeout(s) /\ UNCHANGED <<histVars, callVars, bundleVars>>

SpecHandlers == Init /\ [][NextHandlers]_vars

\* The event methods applied to the broadcaster of one deployment while streams of
\* its dashboards break.
NextDelivery ==
  \/ \E d \in Reqs : OneBroadcaster(d) /\ HandleInitialize(d)
  \/ \E d \in Reqs : OneBroadcaster(d) /\ HandleLog(d)
  \/ \E d \in Reqs : OneBroadcaster(d) /\ HandleProgress(d)
  \/ \E d \in Reqs : OneBroadcaster(d) /\ HandleUpdateStatus(d)
  \/ \E s \in Subs, d \in Reqs :
       OneBroadcaster(d) /\ Connect(s, d) /\ UNCHANGED <<histVars, callVars, bundleVars>>
  \/ \E s \in Subs : StreamBreaks(s) /\ UNCHANGED <<histVars, callVars, bundleVars>>

SpecDelivery == Init /\ [][NextDelivery]_vars

\* The auth config of the service is edited, and publishes and rollbacks make
\* their deploy call with it.
NextDeployCall ==
  \/ UpdateAuth
  \/ PublishDeployCall
  \/ RollbackDeployCall
  \/ DeployWithVarsCall

SpecDeployCall == Init /\ [][NextDeployCall]_vars


\* ---- the claims ----

\* the request that started last; under SpecSeq no other request has run since
Latest(r) == order # <<>> /\ order[Len(order)] = r
ActiveBefore(r) == {v \in Versions : before[r].isActive[v]}

\* C1: whatever the interleaving of publishes and rollbacks of the service, at most
\* one version row of the service has isActive = true.
C1_SingleActiveVersion == Cardinality(ActiveSet) <= 1

\* C2: deactivating the active version and activating the target is one atomic step:
\* no state has the version that was active before the request deactivated while
\* the target is not active, neither during the request nor after it failed.
C2_NoTornActivation ==
  \A r \in Reqs :
    (kind[r] # "none" /\ Latest(r))
      => ~(/\ ActiveBefore(r) # {}
           /\ ActiveBefore(r) \cap ActiveSet = {}
           /\ ~isActive[target[r]])

\* C3: once the Deploy API call of a publish has failed, and when that publish has
\* ended, the isActive flags and the service's currentVersion, workerName and
\* endpointUrl are what they were when the publish started.
C3_DeployErrorLeavesRegistry ==
  \A r \in Reqs :
    (kind[r] = "publish" /\ err[r] = "Failed to deploy worker" /\ Latest(r))
      => Registry = before[r]

\* C3 witness: a publish over an active version has ended after its deploy failed
C3_Witness ==
  \E r \in Reqs :
    /\ kind[r] = "publish" /\ pc[r] = "done" /\ outcome[r] = "failed"
    /\ err[r] = "Failed to deploy worker" /\ deployCalls[r] = 1
    /\ Latest(r) /\ ActiveBefore(r) # {} /\ target[r] \notin ActiveBefore(r)

\* C4: a rollback whose target is the active version is rejected and changes
\* nothing: no flag, no service pointer, no deployment record, no Deploy API call,
\* whichever entry point starts it.
C4_RollbackToActiveRejected ==
  \A r \in Reqs :
    (IsRollback(kind[r]) /\ target[r] \in ActiveBefore(r))
      => /\ outcome[r] = "rejected"
         /\ deployments[r] = NoRecord
         /\ deployCalls[r] = 0
         /\ Latest(r) => Registry = before[r]

\* C5: for a service whose active version is V0, a successful publish of V followed
\* by a successful rollback to V0 ends with currentVersion = V0 and V0 the only
\* active version.
PublishThenRollback(r1, r2) ==
  /\ Len(order) >= 2
  /\ order[Len(order) - 1] = r1 /\ order[Len(order)] = r2
  /\ kind[r1] = "publish" /\ outcome[r1] = "completed"
  /\ IsRollback(kind[r2]) /\ outcome[r2] = "completed"
  /\ ActiveBefore(r1) = {target[r2]}
C5_PublishThenRollbackRestores ==
  \A r1, r2 \in Reqs :
    PublishThenRollback(r1, r2)
      => service.currentVersion = target[r2] /\ ActiveSet = {target[r2]}

\* C5 witness: publish of another version V, then rollback to V0, both completed
C5_Witness ==
  \E r1, r2 \in Reqs :
    /\ PublishThenRollback(r1, r2)
    /\ target[r1] # target[r2]
    /\ before[r2].service.currentVersion = target[r1]

\* the event whose arrival takes arrived[d] from h to g
ArrivedEvent(h, g) == IF g.logs > h.logs THEN LogEvent ELSE g.events[Len(g.events)]
OfType(events, type) == SelectSeq(events, LAMBDA e : e.type = type)
\* DeploymentState has status, logs and error: it has no field for progress events
StateProgress(st) == <<>>
\* the snapshot holds every event of the history h
SnapshotHolds(st, h) ==
  /\ Len(st.logs) = h.logs
  /\ StateProgress(st) = OfType(h.events, "progress")
  /\ LET statuses == OfType(h.events, "status")
     IN statuses # <<>> => st.status = statuses[Len(statuses)].status

\* C6: a subscriber that connects after events were emitted for the deployment
\* receives first a `state` message that holds every log, progress and status
\* event emitted so far.
C6_LateSubscriberReplay ==
  [][\A s \in Subs, d \in Reqs :
       (/\ sub[s].status = "idle"
        /\ sub'[s] = [dep |-> d, status |-> "open"]
        /\ arrived[d] # NoArrivals)
         => /\ Len(received'[s]) = 1
            /\ received'[s][1].type = "state"
            /\ SnapshotHolds(received'[s][1].data, arrived[d])]_vars

\* C7: after its `state` message a subscriber that stays connected receives every
\* later event of the broadcaster, once each and in the order they came.
C7_LiveEventsInOrder ==
  [][\A s \in Subs, d \in Reqs :
       (/\ sub[s] = [dep |-> d, status |-> "open"]
        /\ sub'[s] = sub[s]
        /\ Len(received[s]) > 0
        /\ arrived'[d] # arrived[d])
         => received'[s] = Append(received[s], ArrivedEvent(arrived[d], arrived'[d]))]_vars

ProgressSequence ==
  << ProgressEvent("initializing", 5), ProgressEvent("fetching_bundle", 20),
     ProgressEvent("preparing_worker", 40), ProgressEvent("deploying", 70),
     ProgressEvent("updating_routing", 85), ProgressEvent("completed", 100) >>
IsPrefix(p, q) == Len(p) <= Len(q) /\ p = SubSeq(q, 1, Len(p))

\* C8: a publish in which no step fails emits the progress events 5 initializing,
\* 20 fetching_bundle, 40 preparing_worker, 70 deploying, 85 updating_routing,
\* 100 completed, in that order and no other: all of them once it has completed,
\* a prefix of them while no step has failed.
C8_ProgressSequence ==
  \A r \in Reqs :
    kind[r] = "publish" =>
      /\ err[r] = "" => IsPrefix(OfType(arrived[r].events, "progress"), ProgressSequence)
      /\ outcome[r] = "completed" => OfType(arrived[r].events, "progress") = ProgressSequence

\* C8 witness: a publish has completed
C8_Witness ==
  \E r \in Reqs :
    /\ kind[r] = "publish" /\ outcome[r] = "completed" /\ pc[r] = "done"
    /\ Len(OfType(arrived[r].events, "progress")) = Len(ProgressSequence)

\* C9: every log, progress and status event posted to the broadcaster is accepted:
\* a log is appended to the snapshot, a status sets the snapshot's status, and the
\* event is pushed to every subscriber connected at that moment.
C9_EveryPostAccepted ==
  [][\A d \in Reqs :
       arrived'[d] # arrived[d] =>
         LET ev == ArrivedEvent(arrived[d], arrived'[d])
         IN /\ ev.type = "log" => Len(bstate'[d].logs) = Len(bstate[d].logs) + 1
            /\ ev.type = "status" => bstate'[d].status = ev.status
            /\ \A s \in Subs :
                 (sub[s] = [dep |-> d, status |-> "open"] /\ RemoveConn(conns[d], s) # conns[d])
                   => received'[s] = Append(received[s], ev)]_vars

\* pending, then in_progress, then completed or failed, and nothing after those
StatusMayBecome(from, to) ==
  \/ to = from
  \/ from = "pending" /\ to \in {"in_progress"} \cup Terminal
  \/ from = "in_progress" /\ to \in Terminal

\* C10: the status of an operation, in its actor and in its deployment record, only
\* moves forward along pending, in_progress, completed or failed, and never changes
\* once it is completed or failed.
C10_StatusMonotonic ==
  [][/\ \A a \in Actors :
          (operation[a].id # NoVersion /\ operation'[a].id = operation[a].id)
            => StatusMayBecome(operation[a].status, operation'[a].status)
     /\ \A r \in Reqs :
          deployments[r] # NoRecord
            => StatusMayBecome(deployments[r].status, deployments'[r].status)]_vars

FailureSteps == {"f_db", "f_post", "f_p100", "rf_db", "rf_post", "done"}

\* C12: in a publish, once a step has failed no later pipeline step runs: no bundle
\* read, no generation, no Deploy API call, no write to the service or its versions;
\* and the operation ends failed with the captured error message, in its deployment
\* record and in its actor.
C12_FailureShortCircuits ==
  [][\A r \in Reqs :
       (kind[r] = "publish" /\ err[r] # "" /\ pc[r] # "done")
         => /\ isActive' = isActive /\ service' = service
            /\ deployCalls'[r] = deployCalls[r]
            /\ pc'[r] \in FailureSteps
            /\ pc'[r] = "done"
                 => /\ deployments'[r].status = "failed"
                    /\ deployments'[r].error = err[r]
                    /\ operation'[actor[r]].id = r
                         => /\ operation'[actor[r]].status = "failed"
                            /\ operation'[actor[r]].error = err[r]]_vars

\* a failed status event carrying the message has reached the broadcaster d
FailedEventSent(h, message) ==
  \E i \in 1..Len(h.events) : h.events[i] = StatusEvent("failed", message)

\* C13: every publish and every rollback that ends in failure leaves a deployment
\* record or an operation record of it with status failed and the captured error
\* message, and a failed status event has been sent to the broadcaster of that
\* operation.
C13_FailureRecordedAndBroadcast ==
  [][\A r \in Reqs :
       (pc[r] # "done" /\ pc'[r] = "done" /\ outcome'[r] = "failed")
         => /\ \/ /\ deployments'[r].status = "failed"
                  /\ deployments'[r].error = err'[r]
               \/ /\ kind'[r] # "rollback_route"
                  /\ operation'[actor'[r]].id = r
                  /\ operation'[actor'[r]].status = "failed"
                  /\ operation'[actor'[r]].error = err'[r]
            /\ FailedEventSent(arrived'[r], err'[r])]_vars

\* C14: every awaited call eventually returning or throwing, every deployment record
\* that a publish request creates with status in_progress eventually has status
\* completed or failed; none stays in_progress forever.
C14_RecordEventuallyTerminal ==
  \A r \in Reqs :
    (deployments[r].type = "publish" /\ deployments[r].status = "in_progress")
      ~> (deployments[r].status \in Terminal)

\* C15: a publish calls the Deploy API's deploy at most once, and exactly once when
\* it completes; once the publish has ended, whether completed or failed, no step of
\* it runs again: it stays ended, makes no further deploy call and its deployment
\* record is not written again.
C15_DeployAtMostOnce ==
  [][\A r \in Reqs :
       kind'[r] = "publish"
         => /\ deployCalls'[r] <= 1
            /\ (pc'[r] = "done" /\ outcome'[r] = "completed") => deployCalls'[r] = 1
            /\ pc[r] = "done"
                 => /\ pc'[r] = "done" /\ outcome'[r] = outcome[r]
                    /\ deployCalls'[r] = deployCalls[r]
                    /\ deployments'[r] = deployments[r]]_vars
\* one publish has completed after its one deploy call and another has failed at
\* its deploy call and stayed ended
C15_Witness ==
  \E r, q \in Reqs :
    /\ kind[r] = "publish" /\ pc[r] = "done" /\ outcome[r] = "completed"
    /\ deployCalls[r] = 1
    /\ kind[q] = "publish" /\ pc[q] = "done" /\ outcome[q] = "failed"
    /\ err[q] = "Failed to deploy worker" /\ deployCalls[q] = 1

\* C16: during the Deploying step any non-success response from the hosting
\* platform, whether to the script upload or to the upload of a secret, ends the
\* operation as failed: the deployWorker call that received it throws.
C16_NonSuccessFailsDeploy ==
  (/\ call.fn = "deployWorker"
   /\ \/ ~call.scriptOk
      \/ call.carried # {} /\ ~call.secretsOk)
    => call.thrown

\* the auth secrets of a stored auth config, as the spec lists them per auth mode
ModeSecrets(cfg) ==
  LET stored == CASE cfg.authType = "api_key" ->
                       {Secret("MCP_API_KEY_HASH", cfg.apiKeyHash)}
                  [] cfg.authType = "oauth" ->
                       {Secret("OAUTH_PROVIDER", cfg.oauth.provider),
                        Secret("OAUTH_CLIENT_ID", cfg.oauth.clientId),
                        Secret("OAUTH_CLIENT_SECRET", cfg.oauth.clientSecret),
                        Secret("OAUTH_INTROSPECTION_URL", cfg.oauth.introspectionUrl),
                        Secret("OAUTH_SCOPES", cfg.oauth.scopes)}
                  [] OTHER -> {}
  IN {x \in stored : x.value # ""}

\* C17: the Deploy API call of a publish or rollback carries exactly the auth secrets
\* of the service's auth mode, taken from the stored auth config: none for public,
\* the api-key hash for api_key, the OAuth fields for oauth, and never those of
\* another mode.
C17_CallCarriesModeSecrets ==
  [][(/\ call' # call
      /\ call'.fn = "deployWorker" /\ call'.by \in {"publish", "rollback"}
      /\ ~call'.thrown)
       => call'.carried = ModeSecrets(authConfig)]_vars

\* the messages thrown when the bundle store has no object under the bundle key
BundleNotFound == {"Bundle not found", "Bundle not found in R2"}

\* C18: when the bundle of the version is not in the bundle store, the publish or
\* rollback goes to its failure steps only, without reaching code generation or the
\* Deploy API call, and ends failed.
C18_MissingBundleFails ==
  \A r \in Reqs :
    err[r] \in BundleNotFound
      => /\ deployCalls[r] = 0
         /\ pc[r] \in FailureSteps
         /\ pc[r] = "done" => outcome[r] = "failed"

\* configs with each of name, version and auth mode present or missing
Configs == [name : {"", "mcp-svc"}, version : Versions \cup {NoVersion},
            authType : AuthTypes \cup {""}]
InvalidConfig == "Invalid MCP configuration provided to WorkerGenerator"

C20_RollbackDeployErrorKeepsActive ==
  \A r \in Reqs :
    (/\ IsRollback(kind[r]) /\ pc[r] = "done"
     /\ err[r] = "Failed to deploy worker" /\ Latest(r)
     /\ ActiveBefore(r) # {})
      => /\ ActiveSet = ActiveBefore(r)
         /\ service.currentVersion = before[r].service.currentVersion

\* C21: a rollback whose target version does not exist for the service is rejected
\* before any registry write and before any Deploy API call: it never reaches a step
\* of the rollback, and flags, service row and deployment records stay as they were.
C21_UnknownTargetRejected ==
  \A r \in Reqs :
    (IsRollback(kind[r]) /\ target[r] \notin Versions)
      => /\ pc[r] \in {"r_select", "done"}
         /\ pc[r] = "done" => outcome[r] \in {"not_found", "failed"}
         /\ deployCalls[r] = 0
         /\ deployments[r] = NoRecord
         /\ Latest(r) => Registry = before[r]
\* a rollback to an unknown version, sent to the actor of a service that has an
\* active version, has ended
C21_Witness ==
  \E r \in Reqs :
    /\ kind[r] = "rollback_actor" /\ target[r] = UnknownVersion
    /\ pc[r] = "done" /\ outcome[r] = "failed" /\ err[r] = "Target version not found"
    /\ Latest(r) /\ ActiveBefore(r) # {}

\* the binding names a BindingInput lists for a kind, and the id it gives a name
ListedNames(input, k) == {input[k][i].name : i \in 1..Len(input[k])}
GivenIds(input, k, n) == {input[k][i].id : i \in {j \in 1..Len(input[k]) :
                                                  input[k][j].name = n /\ input[k][j].id # ""}}
DeployedAs(deployed, k, n) ==
  {deployed[i].resource : i \in {j \in 1..Len(deployed) :
                                 deployed[j].type = k /\ deployed[j].name = n}}

\* C22: the bindings a rollback deploys are the merge of the snapshot's bindings and
\* the service's binding configuration: every binding name listed by either is
\* deployed, and a name the snapshot gives a resource is deployed with that resource.
C22_RollbackBindingsMerged ==
  call.fn = "formatBindings"
    => \A k \in Kinds, n \in BindingNames :
         /\ n \in ListedNames(call.snapshot, k) \cup ListedNames(call.server, k)
              => DeployedAs(call.deployed, k, n) # {}
         /\ (GivenIds(call.snapshot, k, n) # {} /\ DeployedAs(call.deployed, k, n) # {})
              => DeployedAs(call.deployed, k, n) \subseteq GivenIds(call.snapshot, k, n)

ToolPrefix == <<"t", "o", "o", "l">>
IsSuffix(p, q) == Len(p) <= Len(q) /\ p = SubSeq(q, Len(q) - Len(p) + 1, Len(q))
Replaced(name) == [i \in 1..Len(name) |-> IF name[i] \in IdentifierChars THEN name[i] ELSE "_"]

\* C24: for every tool name the sanitized identifier is non-empty, starts with a
\* letter or underscore and holds only letters, digits and underscores; it is the
\* name with each disallowed character replaced by `_`, behind the fixed prefix when
\* that is empty or starts with a digit.
C24_SafeIdentifier ==
  call.fn = "toSafeIdentifier"
    => LET id == call.result
           replaced == Replaced(call.name)
       IN /\ id # <<>>
          /\ id[1] \in Letters \cup {"_"}
          /\ \A i \in 1..Len(id) : id[i] \in IdentifierChars
          /\ IF replaced = <<>> \/ replaced[1] \in Digits
             THEN IsPrefix(ToolPrefix, id) /\ IsSuffix(replaced, id)
             ELSE id = replaced
\* the identifier of a name that starts with a digit and holds a disallowed character
C24_Witness ==
  /\ call.fn = "toSafeIdentifier"
  /\ call.name # <<>> /\ call.name[1] \in Digits
  /\ \E i \in 1..Len(call.name) : call.name[i] \notin IdentifierChars

\* a fragment that is a whole function or lambda: a header that starts with the
\* keyword or ends with the arrow, then a body whose closing brace ends the fragment
IsWholeFunction(t) ==
  \E b \in 1..Len(t) :
    /\ t[b] = "{" /\ \A i \in 1..(b - 1) : t[i] \notin {"{", "}"}
    /\ t[Len(t)] = "}" /\ Depth(t, b, Len(t)) = 0
    /\ \A i \in b..(Len(t) - 1) : Depth(t, b, i) > 0
    /\ LET header == Trim(SubSeq(t, 1, b - 1))
       IN header # <<>> /\ (header[1] = "function" \/ header[Len(header)] = "=>")
BodyOf(t) ==
  LET b == CHOOSE i \in 1..Len(t) : t[i] = "{" /\ \A j \in 1..(i - 1) : t[j] # "{"
  IN Trim(SubSeq(t, b + 1, Len(t) - 1))

\* C25: a handler fragment that is not itself a whole function or lambda is embedded
\* verbatim (up to trimming), also when it contains a nested function or arrow
\* function; only a fragment that is a whole function or lambda is replaced by the
\* text between its body's opening brace and the matching closing brace.
C25_HandlerVerbatimUnlessFunction ==
  call.fn = "normalizeHandlerBody"
    => LET t == Trim(call.handler)
       IN IF IsWholeFunction(t) THEN call.result = BodyOf(t) ELSE call.result = t

RECURSIVE RequiredAsFlagged(_, _)
\* in the validator of a schema, at this depth and below, a property is optional
\* exactly when its key is not flagged as required
RequiredAsFlagged(schema, validator) ==
  IF schema.type = "object"
  THEN /\ validator.kind = "object"
       /\ DOMAIN validator.shape = DOMAIN schema.properties
       /\ \A key \in DOMAIN schema.properties :
            /\ validator.shape[key].optional = (key \notin schema.required)
            /\ RequiredAsFlagged(schema.properties[key], validator.shape[key].schema)
  ELSE IF schema.type = "array"
  THEN validator.kind = "array" /\ RequiredAsFlagged(schema.items, validator.element)
  ELSE TRUE

\* C26: in the validator compiled for an object parameter, at every nesting depth, a
\* property is required exactly when it is flagged as required and optional otherwise.
C26_RequiredExactlyWhenFlagged ==
  call.fn = "generateZodSchema" => RequiredAsFlagged(call.schema, call.result)
\* the validator of an object with a nested object that has a required property and
\* an optional one
C26_Witness ==
  /\ call.fn = "generateZodSchema" /\ call.schema.type = "object"
  /\ \E key \in DOMAIN call.schema.properties :
       LET nested == call.schema.properties[key]
       IN /\ nested.type = "object"
          /\ \E a, b \in DOMAIN nested.properties :
               a \in nested.required /\ b \notin nested.required

\* C27: createBundle is idempotent by content: a call with the service, version and
\* content of an earlier call returns the key and hash the earlier call returned, and
\* the store holds under that key an object whose content getBundle returns unchanged.
C27_CreateBundleIdempotent ==
  (call.fn = "createBundle" /\ call.again)
    => /\ \A earlier \in bundleCalls :
            (earlier.version = call.version /\ earlier.sourceCode = call.sourceCode)
              => (earlier.key = call.key /\ earlier.hash = call.hash)
       /\ BundleServiceGetBundle(call.key) = call.sourceCode
\* createBundle called again with the content of an earlier call, after a call with
\* another content of the same hash
C27_Witness ==
  /\ call.fn = "createBundle" /\ call.again
  /\ \E other \in bundleCalls :
       /\ other.key = call.key
       /\ other.sourceCode # call.sourceCode

\* a create-version request that ended without writing a version row
EndedWithoutRow(r) ==
  /\ creates[r].pc = "done"
  /\ \A row \in versionRows : row.id # r

\* C28: a create-version request whose version exists for the service is rejected as a
\* conflict before any bundle is written, also when two requests for the same version
\* run concurrently; the registry never holds two rows with the same version.
C28_DuplicateVersionConflict ==
  /\ \A r \in Reqs :
       EndedWithoutRow(r) => (creates[r].status = "409" /\ creates[r].bundleKey = NoKey)
  /\ \A row, other \in versionRows : row.version = other.version => row = other

C30_EventsArriveInOrder ==
  [][\A d \in Reqs :
       arrived'[d].events # arrived[d].events => inflight[d] = 0]_vars

\* C31: whenever no publish or rollback of the service is in flight, the service's
\* currentVersion is the version of the one version row marked active, or the service
\* has no currentVersion and no version row is active.
C31_CurrentVersionIsActive ==
  NoneInFlight
    => \/ ActiveSet = {service.currentVersion}
       \/ service.currentVersion = NoVersion /\ ActiveSet = {}

\* C32: if a publish ends with status failed, for whatever reason and at whatever
\* step, the isActive flags and the service's currentVersion, workerName and
\* endpointUrl are what they were when the publish started.
C32_FailedPublishLeavesRegistry ==
  \A r \in Reqs :
    (kind[r] = "publish" /\ pc[r] = "done" /\ outcome[r] = "failed" /\ Latest(r))
      => Registry = before[r]

\* the completed status of publish r can be seen: in its deployment record or among
\* the events sent to its broadcaster
CompletedVisible(r) ==
  \/ deployments[r].status = "completed"
  \/ \E i \in 1..Len(arrived[r].events) :
       LET ev == arrived[r].events[i]
       IN \/ ev.type = "status" /\ ev.status = "completed"
          \/ ev.type = "progress" /\ ev.step = "completed"

\* C33: a completed status for a publish of version V is written to the deployment
\* record and sent to the broadcaster only after the Deploy API call succeeded, V was
\* marked active and the service's currentVersion was set to V: while no later
\* operation has started, completed is seen only with all three in place.
C33_CompletedAfterWrites ==
  \A r \in Reqs :
    (kind[r] = "publish" /\ Latest(r) /\ CompletedVisible(r))
      => /\ deployCalls[r] = 1 /\ err[r] = ""
         /\ isActive[target[r]]
         /\ service.currentVersion = target[r]
\* the deployment record of a publish has just been set to completed, before the
\* status event is posted
C33_Witness ==
  \E r \in Reqs :
    /\ kind[r] = "publish" /\ pc[r] = "e_complete_post"
    /\ deployments[r].status = "completed"
    /\ ActiveBefore(r) # {} /\ target[r] \notin ActiveBefore(r)

\* C34: when one of several subscribers of a broadcaster cancels its stream, exactly
\* that subscriber is removed from the connections; every other subscriber stays in
\* them, so that it keeps receiving the later events.
C34_CancelRemovesOnlyCanceller ==
  [][\A s \in Subs :
       (sub[s].status = "open" /\ sub'[s].status = "cancelled")
         => /\ \A d \in Reqs : conns'[d] = RemoveConn(conns[d], s)
            /\ \A t \in Subs \ {s} :
                 sub'[t].status = "open"
                   => RemoveConn(conns'[sub'[t].dep], t) # conns'[sub'[t].dep]]_vars

\* subscriber s is in the connections of broadcaster d
Connected(set, s) == RemoveConn(set, s) # set

\* the message a step has appended to the stream of subscriber t
Delivered(t) == received'[t][Len(received'[t])]

\* C35: when delivering an event to one subscriber fails, the broadcaster removes only
\* that subscriber and still delivers the same event to every other connected
\* subscriber, which stays connected for the later ones; the snapshot is updated
\* regardless of the failure.
C35_DeliveryFailureIsolated ==
  [][\A d \in Reqs, f \in Subs :
       (/\ Connected(conns[d], f) /\ sub[f].status = "errored"
        /\ ~Connected(conns'[d], f))
         => /\ received'[f] = received[f]
            /\ bstate'[d] # NoState
            /\ \A t \in Subs :
                 (Connected(conns[d], t) /\ sub[t].status = "open")
                   => /\ Connected(conns'[d], t)
                      /\ Len(received'[t]) = Len(received[t]) + 1
                      /\ SubSeq(received'[t], 1, Len(received[t])) = received[t]
                      /\ \A u \in Subs :
                           (Connected(conns[d], u) /\ sub[u].status = "open")
                             => Delivered(u) = Delivered(t)
                      /\ Delivered(t).type = "log"
                           => bstate'[d].logs = Append(bstate[d].logs, LogEvent)
                      /\ Delivered(t).type = "status"
                           => bstate'[d].status = Delivered(t).status]_vars
\* a subscriber whose stream broke has been removed, and a subscriber that connected
\* after it has been sent the one log line of the deployment, which the first has not
C35_Witness ==
  \E f, t \in Subs :
    /\ sub[f].status = "errored" /\ ~Connected(conns[sub[f].dep], f)
    /\ sub[t] = [dep |-> sub[f].dep, status |-> "open"]
    /\ Connected(conns[sub[t].dep], t)
    /\ Len(bstate[sub[t].dep].logs) = 1
    /\ received[f] = <<>>
    /\ received[t] = <<LogEvent>>

\* C36: two distinct tool names of one version always get distinct handler and schema
\* identifiers: the generated source never declares the same identifier twice.
C36_DistinctIdentifiers ==
  call.fn = "generateToolsCode"
    => \A i, j \in 1..Len(call.declared) :
         call.declared[i] = call.declared[j] => i = j

\* C37: handler normalization is idempotent: a handler normalized when the tools are
\* saved is embedded at publish exactly as it was stored.
C37_NormalizationIdempotent ==
  call.fn = "saveThenPublish" => call.embedded = call.stored

\* C38: for every interleaving of concurrent tools-update requests of one service,
\* once they have ended every version row has a bundle key whose bundle is in the
\* bundle store: the cleanup after a failed insert never deletes a bundle that a
\* stored version refers to.
C38_StoredVersionsHaveBundles ==
  (\A r \in Reqs : updates[r].pc \in {"idle", "done"})
    => \A row \in versionRows : BundleServiceGetBundle(row.bundleKey) # NoObject

====
